---- MODULE Spec2Model ----
(***************************************************************************)
(* Player economy of the card game: ledger (currency, inventories, deck    *)
(* slots), trade exchange, gacha draws with pity, and the currency moving  *)
(* parts of shop, card sale, ranked fee and duel.                          *)
(*                                                                         *)
(* The committed database is the state; every request handler is a process *)
(* whose steps are the stretches of code between two commits (or between   *)
(* the read that establishes a precondition and the commit that acts on    *)
(* it).  A handler that raises leaves the committed rows as they are: its  *)
(* session is closed and the pending changes are dropped.                  *)
(***************************************************************************)
EXTENDS Integers, Sequences, FiniteSets, TLC

(* ------------------------------ bounds --------------------------------- *)

\* Number of request handlers that may be in flight at once in SpecConc.
NumProcs == 2

\* Number of requests served in one behaviour of SpecTrade.
MaxOps == 3

\* Number of requests served in one behaviour of SpecConc.
MaxConcOps == 3

\* Number of requests served in one behaviour of SpecGacha.
MaxPulls == 3

\* Number of requests served in one behaviour of Spec.
MaxEconOps == 3

\* Number of battles resolved in one behaviour of SpecRanked.
MaxBattles == 3

\* The clock stops here in SpecRanked.
MaxBattleTime == 3

\* fee checks and plays of one run, and the slot at which its clock stops
MaxPlays == 4

MaxPlayTime == 7

\* duel commands and acceptances of one run
MaxDuels == 3

\* pulls, fee charges and duel resolutions in flight together in one run
MaxLedgerOps == 3

\* ranked requests and acceptances of one run
MaxArenaOps == 3

\* The clock stops here in SpecCalendar.
MaxCalendarTime == 44

\* deck commands, sales, purchases, pulls and trades of one run
MaxDeckOps == 3

\* rank accesses, rollovers and reward runs of one run, the slot at which
\* its clock stops, and the other players on the board
MaxWeekOps == 3

MaxWeekTime == 21

BoardCrowd == 100

\* Number of trade rows created in one behaviour.
MaxTrades == 2

(* -------------------------- program constants -------------------------- *)

MAX_PITY == 1000

SINGLE_PULL_COST == 100

TEN_PULL_COST == 1000

\* pull counts accepted by pull_cards
PullCounts == {1, 10}

(* ------------------------------ optionals ------------------------------ *)

\* Python's None, and a present value v, for the nullable columns / fields.
None == <<>>

Some(v) == <<v>>

\* Python truthiness of an "int | None" value: None and 0 are falsy.
Truthy(o) == o # None /\ o[1] # 0

(* ------------------------------- catalog ------------------------------- *)

Players == {1, 2, 3}

\* ids a caller can name: the players rows and an id with no row
PlayerIds == Players \cup {9}

Cards == {1, 2, 3}

CardRarity == {"C", "R", "SR", "SSR", "UR", "LR", "EX"}

\* cards.rarity of the catalog rows
Rarity(c) == CASE c = 1 -> "R" [] c = 2 -> "SSR" [] c = 3 -> "UR" [] OTHER -> "C"

\* cards.price of the catalog rows (sale value of one unit): any integer is
\* stored as given, and card 3 was stored with a price below 0
CardPrice(c) == CASE c = 1 -> 50 [] c = 2 -> 500 [] OTHER -> -50

TradeStatus == {"PENDING", "COMPLETED", "REJECTED", "CANCELLED"}

DeckPositions == 1..6

(* ------------------------------- state --------------------------------- *)

VARIABLES
  currency,   \* players.currency, by player id
  inventory,  \* inventories rows: <<player, kind, id>> -> quantity
  deck,       \* deck_cards rows: <<player, position, card>>
  trades,     \* trades rows, by id 1..Len(trades)
  events,     \* event_logs rows as a bag: [player_id, event_type, ref] -> count
  pulls,      \* gacha_pulls rows as a bag: [player_id, pool_id, card_id, was_pity] -> count
  pity,       \* gacha_pity rows: <<player, pool>> -> pity_count
  proc,       \* request handlers: position, arguments, session-local objects
  nops,       \* requests served so far
  ranks,      \* pvp_ranks rows, by id 1..Len(ranks)
  now,        \* the clock: 8-hour slots since a Monday 00:00 UTC
  dbtz,       \* UTC offset (in slots) of the timestamps the database session returns
  playlog,    \* history: the instants at which each player's plays were recorded
  calc,       \* arguments and result of the function under evaluation
  requests,   \* ranked requests posted with their accept button: a set of records
  challenges  \* pvp_challenges rows, by id 1..Len(challenges)

vars == <<currency, inventory, deck, trades, events, pulls, pity, proc, nops,
          ranks, now, dbtz, playlog, calc, requests, challenges>>

\* the ranked-play side of the state
pvp == <<ranks, now, dbtz, playlog, calc, requests, challenges>>

\* the requests and the challenges
arena == <<requests, challenges>>

db == <<currency, inventory, deck, trades, events, pulls, pity>>

ledger == <<currency, inventory, deck>>

Procs == 1..NumProcs

(* ------------------------------ row helpers ---------------------------- *)

\* a table kept as a bag of rows: add n copies of row e
BagAdd(b, e, n) == IF e \in DOMAIN b THEN [b EXCEPT ![e] = @ + n] ELSE b @@ (e :> n)

BagSize(b) == LET RECURSIVE Sum(_)
                  Sum(S) == IF S = {} THEN 0
                            ELSE LET x == CHOOSE y \in S : TRUE IN b[x] + Sum(S \ {x})
              IN Sum(DOMAIN b)

RECURSIVE BagAddAll(_, _)
BagAddAll(b, s) == IF s = <<>> THEN b ELSE BagAddAll(BagAdd(b, Head(s), 1), Tail(s))

\* remove key k from a table kept as a function
DropKey(f, k) == [x \in (DOMAIN f) \ {k} |-> f[x]]

EventLog(player, type, ref) == [player_id |-> player, event_type |-> type, ref |-> ref]

CardKey(player, card) == <<player, "card", card>>

ItemKey(player, item) == <<player, "item", item>>

\* the Inventory row of (player, card) exists
HasCardRow(inv, player, card) == CardKey(player, card) \in DOMAIN inv

\* quantity of the card the player owns; 0 when there is no row
CardQty(inv, player, card) == IF HasCardRow(inv, player, card) THEN inv[CardKey(player, card)] ELSE 0

(* ------------------------------ processes ------------------------------ *)

NoTrade == [proposer_id |-> 0, receiver_id |-> 0, offered_card_id |-> 0,
            requested_card_id |-> None, price |-> None, status |-> "NONE"]

NoDraw == [card |-> 0, was_pity |-> FALSE, before |-> 0]

NoPre == [currency |-> <<>>, inventory |-> <<>>]

IdleProc == [pc |-> "idle", op |-> "none", result |-> "none", err |-> "none",
             actor |-> 0, tid |-> 0, trade |-> NoTrade, pending |-> <<>>, pre |-> NoPre,
             arg |-> 0, pool |-> 0, count |-> 0, done |-> 0, cur |-> 0, pity |-> 0,
             drawn |-> <<>>, last |-> NoDraw, peer |-> 0, amount |-> 0, loaded |-> None,
             winner |-> 0]

\* every handler is idle: the next request is served after the previous one returned
Sequential == \A q \in Procs : proc[q].pc = "idle"

CanStart(p) == proc[p].pc = "idle"

\* what is left of a request once its handler is gone: the call and its outcome
Outcome(rec, result, e) ==
  [IdleProc EXCEPT !.op = rec.op, !.actor = rec.actor, !.tid = rec.tid, !.count = rec.count,
                   !.done = rec.done, !.peer = rec.peer, !.amount = rec.amount,
                   !.winner = rec.winner,
                   !.result = result, !.err = e]

\* the handler returned normally
Return(p, rec) == proc' = [proc EXCEPT ![p] = Outcome(rec, "ok", "none")]

\* the handler raised: the session is closed, pending changes are dropped
Raise(p, rec, e) == proc' = [proc EXCEPT ![p] = Outcome([rec EXCEPT !.actor = 0, !.tid = 0], "error", e)]

(* ------------------------------- Init ---------------------------------- *)

\* Player 1 owns two units of card 1 (both in deck slots) and one unit of
\* card 3; player 2 owns one unit of card 2 (in a deck slot); player 3 owns
\* nothing.  Pity counters of player 2 start fresh or close to the threshold.
InitInventory == (CardKey(1, 1) :> 2) @@ (CardKey(1, 3) :> 1) @@ (CardKey(2, 2) :> 1)

InitDeck == {<<1, 1, 1>>, <<1, 2, 1>>, <<2, 1, 2>>}

InitPity == {<<>>, (<<2, 1>> :> MAX_PITY - 1), (<<2, 1>> :> MAX_PITY),
             (<<2, 2>> :> MAX_PITY - 5), (<<2, 2>> :> MAX_PITY)}

InitCurrency(a, b) == [q \in Players |-> CASE q = 1 -> a [] q = 2 -> b [] OTHER -> 0]

\* nobody has played yet
InitNoPvp ==
  /\ ranks = <<>>
  /\ now = 0
  /\ dbtz = 0
  /\ playlog = <<>>
  /\ calc = <<>>
  /\ requests = {} /\ challenges = <<>>

InitRows ==
  /\ InitNoPvp
  /\ inventory = InitInventory
  /\ deck = InitDeck
  /\ trades = <<>>
  /\ events = <<>>
  /\ pulls = <<>>
  /\ proc = [q \in Procs |-> IdleProc]
  /\ nops = 0

Init ==
  /\ currency \in {InitCurrency(a, b) : a \in {0, 100}, b \in {500, 1000}}
  /\ pity \in InitPity
  /\ InitRows

\* the trade scenarios: no pull has been made yet
InitTrade ==
  /\ currency \in {InitCurrency(0, b) : b \in {500, 1000}}
  /\ pity = <<>>
  /\ InitRows

\* the economy scenarios: any of the balances, no pull has been made yet
InitEconomy ==
  /\ currency \in {InitCurrency(a, b) : a \in {0, 100}, b \in {500, 1000}}
  /\ pity = <<>>
  /\ InitRows

(* ------------------------------- trades -------------------------------- *)

\* A field of the TradeCreate payload: given or left to its default (None).
Unset == [given |-> FALSE, v |-> None]

Given(o) == [given |-> TRUE, v |-> o]

\* validate_price: a price that is present must not be negative
PriceNonNegative(price) == price = None \/ price[1] >= 0

\* a cross-field validator that only refuses a payload with neither field
CardOrPrice(requested, price) == ~(requested = None /\ price = None)

\* validate_card_or_price, as run on the price field: not neither, not both
CardXorPrice(requested, price) ==
  /\ ~(requested = None /\ price = None)
  /\ ~(requested # None /\ price # None)

\* TradeCreate(...) validates.  pydantic runs the field validators only on
\* fields that are given; on requested_card_id the cross-field validator finds
\* no "requested_card_id" in info.data yet and checks nothing.
TradeCreateValid(reqIn, priceIn) ==
  priceIn.given => (PriceNonNegative(priceIn.v) /\ CardXorPrice(reqIn.v, priceIn.v))

\* CheckConstraint requested_card_or_price_not_null of table trades
TradeRowConstraint(t) == t.requested_card_id # None \/ t.price # None

\* foreign key cards.id of trades.requested_card_id
RequestedCardExists(o) == o = None \/ o[1] \in Cards

\* "not cards or cards[0][1] < 1" negated: the player owns at least one unit
OwnsCard(inv, player, card) == HasCardRow(inv, player, card) /\ ~(inv[CardKey(player, card)] < 1)

\* a creation that lets a player trade with themself
NeverSelfTrade(proposer, receiver) == FALSE

IsSelfTrade(proposer, receiver) == proposer = receiver

\* the receiver cannot pay the price asked ("if price and currency < price")
CannotPay(cur, player, price) == Truthy(price) /\ cur[player] < price[1]

\* the error create_trade_request (or the TradeCreate schema before it) raises, if any
CreateError(proposer, receiver, offered, reqIn, priceIn) ==
  IF ~TradeCreateValid(reqIn, priceIn) THEN "validation"
  ELSE IF proposer \notin Players THEN "no_proposer"
  ELSE IF receiver \notin Players THEN "no_receiver"
  ELSE IF IsSelfTrade(proposer, receiver) THEN "self_trade"
  ELSE IF ~OwnsCard(inventory, proposer, offered) THEN "no_offered_card"
  ELSE IF Truthy(reqIn.v) /\ ~OwnsCard(inventory, receiver, reqIn.v[1]) THEN "no_requested_card"
  ELSE IF CannotPay(currency, receiver, priceIn.v) THEN "insufficient_funds"
  ELSE IF \/ ~TradeRowConstraint([requested_card_id |-> reqIn.v, price |-> priceIn.v])
          \/ ~RequestedCardExists(reqIn.v) THEN "integrity"
  ELSE "none"

CreateTrade(p, proposer, receiver, offered, reqIn, priceIn) ==
  /\ CanStart(p)
  /\ nops' = nops + 1
  /\ LET t == [proposer_id |-> proposer, receiver_id |-> receiver, offered_card_id |-> offered,
               requested_card_id |-> reqIn.v, price |-> priceIn.v, status |-> "PENDING"]
         rec == [IdleProc EXCEPT !.op = "create", !.actor = proposer, !.trade = t]
         e == CreateError(proposer, receiver, offered, reqIn, priceIn)
     IN IF e # "none"
        THEN /\ Raise(p, rec, e)
             /\ UNCHANGED db
        ELSE /\ Len(trades) < MaxTrades
             /\ trades' = Append(trades, t)
             /\ events' = BagAdd(events, EventLog(proposer, "TRADE_CREATED", Len(trades) + 1), 1)
             /\ Return(p, [rec EXCEPT !.tid = Len(trades) + 1])
             /\ UNCHANGED <<currency, inventory, deck, pulls, pity>>
  /\ UNCHANGED pvp

\* an actor check that lets the receiver cancel
ReceiverOf(t, op) == t.receiver_id

\* get_trade and the actor / status checks shared by accept, reject, cancel
ActorOf(t, op) == IF op = "cancel" THEN t.proposer_id ELSE t.receiver_id

GetTradeError(tid, actor, op) ==
  IF tid \notin DOMAIN trades THEN "not_found"
  ELSE IF ActorOf(trades[tid], op) # actor THEN "forbidden"
  ELSE IF trades[tid].status # "PENDING" THEN "bad_status"
  ELSE "none"

StartTradeCall(p, op, tid, actor, next) ==
  /\ CanStart(p)
  /\ nops' = nops + 1
  /\ LET rec == [IdleProc EXCEPT !.op = op, !.actor = actor, !.tid = tid]
         e == GetTradeError(tid, actor, op)
     IN IF e # "none"
        THEN Raise(p, rec, e)
        ELSE proc' = [proc EXCEPT ![p] = [rec EXCEPT !.pc = next, !.trade = trades[tid],
                                          !.pre = [currency |-> currency, inventory |-> inventory]]]
  /\ UNCHANGED db
  /\ UNCHANGED pvp

StartAccept(p, tid, actor) == StartTradeCall(p, "accept", tid, actor, "accept_validate")

StartReject(p, tid, actor) == StartTradeCall(p, "reject", tid, actor, "reject_commit")

StartCancel(p, tid, actor) == StartTradeCall(p, "cancel", tid, actor, "cancel_commit")

SetStatus(tid, status) == trades' = [trades EXCEPT ![tid].status = status]

RejectCommit(p) ==
  /\ proc[p].pc = "reject_commit"
  /\ SetStatus(proc[p].tid, "REJECTED")
  /\ events' = BagAdd(events, EventLog(proc[p].actor, "TRADE_REJECTED", proc[p].tid), 1)
  /\ Return(p, proc[p])
  /\ UNCHANGED <<currency, inventory, deck, pulls, pity, nops>>
  /\ UNCHANGED pvp

CancelCommit(p) ==
  /\ proc[p].pc = "cancel_commit"
  /\ SetStatus(proc[p].tid, "CANCELLED")
  /\ events' = BagAdd(events, EventLog(proc[p].actor, "TRADE_CANCELLED", proc[p].tid), 1)
  /\ Return(p, proc[p])
  /\ UNCHANGED <<currency, inventory, deck, pulls, pity, nops>>
  /\ UNCHANGED pvp

\* a re-validation that looks at the offered card only
OfferRevalidationFails(t) == ~OwnsCard(inventory, t.proposer_id, t.offered_card_id)

\* the re-validation of accept_trade finds the trade no longer executable
RevalidationFails(t) ==
  \/ ~OwnsCard(inventory, t.proposer_id, t.offered_card_id)
  \/ Truthy(t.requested_card_id) /\ ~OwnsCard(inventory, t.receiver_id, t.requested_card_id[1])
  \/ CannotPay(currency, t.receiver_id, t.price)

AcceptValidate(p) ==
  /\ proc[p].pc = "accept_validate"
  /\ IF RevalidationFails(proc[p].trade)
     THEN /\ SetStatus(proc[p].tid, "CANCELLED")
          /\ Raise(p, proc[p], "revalidation")
     ELSE /\ proc' = [proc EXCEPT ![p].pc = "accept_offer"]
          /\ UNCHANGED trades
  /\ UNCHANGED <<currency, inventory, deck, events, pulls, pity, nops>>
  /\ UNCHANGED pvp

\* a transfer that keeps the sender's row when its quantity reaches 0
TransferCardKeepRow(inv, from, to, card) ==
  BagAdd([inv EXCEPT ![CardKey(from, card)] = @ - 1], CardKey(to, card), 1)

\* _transfer_card, the inventory part: one unit from one row to the other
TransferCard(inv, from, to, card) ==
  LET k == CardKey(from, card)
      out == IF inv[k] - 1 = 0 THEN DropKey(inv, k) ELSE [inv EXCEPT ![k] = @ - 1]
  IN BagAdd(out, CardKey(to, card), 1)

\* a removal that leaves every slot as it is
DeckKept(d, player, card, quantity) == {d}

\* remove_card_instances_from_deck: the deck tables left by removing
\* min(quantity, k) of the k slots of the player holding the card (all of
\* them for quantity None); which ones is the order of the query result
DeckAfterRemoval(d, player, card, quantity) ==
  LET rows == {r \in d : r[1] = player /\ r[3] = card}
      n == Cardinality(rows)
      to_remove == IF quantity = None THEN n
                   ELSE IF quantity[1] < n THEN quantity[1] ELSE n
  IN {d \ S : S \in {T \in SUBSET rows : Cardinality(T) = to_remove}}

AcceptTransferCard(p, from, to, card, next) ==
  /\ IF ~OwnsCard(inventory, from, card)
     THEN /\ Raise(p, proc[p], "transfer_failed")
          /\ UNCHANGED <<inventory, events>>
     ELSE /\ inventory' = TransferCard(inventory, from, to, card)
          /\ events' = BagAddAll(events, proc[p].pending)
          /\ proc' = [proc EXCEPT ![p].pc = next, ![p].pending = <<>>]
  /\ UNCHANGED <<currency, deck, trades, pulls, pity, nops>>
  /\ UNCHANGED pvp

AcceptRemoveFromDeck(p, from, to, card, next) ==
  /\ deck' \in DeckAfterRemoval(deck, from, card, Some(1))
  /\ proc' = [proc EXCEPT ![p].pc = next,
                ![p].pending = <<EventLog(from, "TRADE_CARD_SENT", proc[p].tid),
                                 EventLog(to, "TRADE_CARD_RECEIVED", proc[p].tid)>>]
  /\ UNCHANGED <<currency, inventory, trades, events, pulls, pity, nops>>
  /\ UNCHANGED pvp

AcceptOffer(p) ==
  /\ proc[p].pc = "accept_offer"
  /\ LET t == proc[p].trade
     IN AcceptTransferCard(p, t.proposer_id, t.receiver_id, t.offered_card_id, "accept_offer_deck")

AcceptOfferDeck(p) ==
  /\ proc[p].pc = "accept_offer_deck"
  /\ LET t == proc[p].trade
     IN AcceptRemoveFromDeck(p, t.proposer_id, t.receiver_id, t.offered_card_id,
                             IF Truthy(t.requested_card_id) THEN "accept_request" ELSE "accept_finish")

AcceptRequest(p) ==
  /\ proc[p].pc = "accept_request"
  /\ LET t == proc[p].trade
     IN AcceptTransferCard(p, t.receiver_id, t.proposer_id, t.requested_card_id[1], "accept_request_deck")

AcceptRequestDeck(p) ==
  /\ proc[p].pc = "accept_request_deck"
  /\ LET t == proc[p].trade
     IN AcceptRemoveFromDeck(p, t.receiver_id, t.proposer_id, t.requested_card_id[1], "accept_finish")

\* a transfer that credits the receiver and forgets to debit the sender
CreditOnly(cur, from, to, amount) == [cur EXCEPT ![to] = @ + amount]

\* _transfer_currency: the balances after moving amount
TransferCurrency(cur, from, to, amount) ==
  [cur EXCEPT ![from] = @ - amount, ![to] = @ + amount]

AcceptFinish(p) ==
  /\ proc[p].pc = "accept_finish"
  /\ LET t == proc[p].trade
         money == <<EventLog(t.receiver_id, "TRADE_MONEY_SENT", proc[p].tid),
                    EventLog(t.proposer_id, "TRADE_MONEY_RECEIVED", proc[p].tid)>>
         accepted == <<EventLog(proc[p].actor, "TRADE_ACCEPTED", proc[p].tid)>>
     IN IF Truthy(t.price)
        THEN IF currency[t.receiver_id] < t.price[1]
             THEN /\ Raise(p, proc[p], "transfer_failed")
                  /\ UNCHANGED <<currency, trades, events>>
             ELSE /\ currency' = TransferCurrency(currency, t.receiver_id, t.proposer_id, t.price[1])
                  /\ SetStatus(proc[p].tid, "COMPLETED")
                  /\ events' = BagAddAll(events, proc[p].pending \o money \o accepted)
                  /\ Return(p, proc[p])
        ELSE /\ SetStatus(proc[p].tid, "COMPLETED")
             /\ events' = BagAddAll(events, proc[p].pending \o accepted)
             /\ Return(p, proc[p])
             /\ UNCHANGED currency
  /\ UNCHANGED <<inventory, deck, pulls, pity, nops>>
  /\ UNCHANGED pvp

(* ----------------------------- card sale ------------------------------- *)

SellError(player, card, quantity) ==
  IF quantity < 1 THEN "bad_quantity"
  ELSE IF player \notin Players THEN "no_player"
  ELSE IF card \notin Cards THEN "no_card"
  ELSE IF ~HasCardRow(inventory, player, card) \/ inventory[CardKey(player, card)] < quantity
       THEN "insufficient_cards"
  ELSE "none"

SellCard(p, player, card, quantity) ==
  /\ CanStart(p)
  /\ nops' = nops + 1
  /\ LET rec == [IdleProc EXCEPT !.op = "sell", !.actor = player, !.arg = quantity,
                                 !.trade = [NoTrade EXCEPT !.offered_card_id = card]]
         e == SellError(player, card, quantity)
         k == CardKey(player, card)
     IN IF e # "none"
        THEN /\ Raise(p, rec, e)
             /\ UNCHANGED db
        ELSE /\ inventory' = IF inventory[k] - quantity = 0 THEN DropKey(inventory, k)
                             ELSE [inventory EXCEPT ![k] = @ - quantity]
             /\ currency' = [currency EXCEPT ![player] = @ + CardPrice(card) * quantity]
             /\ events' = BagAdd(events, EventLog(player, "SELL_CARD", card), 1)
             /\ proc' = [proc EXCEPT ![p] = [rec EXCEPT !.pc = "sell_deck"]]
             /\ UNCHANGED <<deck, trades, pulls, pity>>
  /\ UNCHANGED pvp

SellDeck(p) ==
  /\ proc[p].pc = "sell_deck"
  /\ deck' \in DeckAfterRemoval(deck, proc[p].actor, proc[p].trade.offered_card_id, Some(proc[p].arg))
  /\ Return(p, proc[p])
  /\ UNCHANGED <<currency, inventory, trades, events, pulls, pity, nops>>
  /\ UNCHANGED pvp

(* ------------------------------- gacha --------------------------------- *)

Pools == {1, 2, 3, 4}

\* card_pool_cards rows of a pool: <<card, probability>>, the probability in
\* hundredths.  Pool 1 has an SSR card of weight 0, pool 2 no SSR card, pool 3
\* no card, pool 4 only weights 0.
PoolCards(pool) ==
  CASE pool = 1 -> {<<1, 70>>, <<2, 0>>, <<3, 30>>}
    [] pool = 2 -> {<<1, 100>>}
    [] pool = 4 -> {<<1, 0>>, <<2, 0>>}
    [] OTHER -> {}

RECURSIVE TotalProb(_)
TotalProb(cards) ==
  IF cards = {} THEN 0
  ELSE LET x == CHOOSE y \in cards : TRUE IN x[2] + TotalProb(cards \ {x})

\* pity candidates of rarity SSR or higher
SsrOrHigherCards(cards) == {x[1] : x \in {y \in cards : Rarity(y[1]) \in {"SSR", "UR", "LR", "EX"}}}

\* the candidates of a pity draw: the cards of rarity SSR, whatever their weight
SsrCards(cards) == {x[1] : x \in {y \in cards : Rarity(y[1]) = "SSR"}}

\* the error _select_card_by_probability raises, if any
SelectError(cards, is_pity) ==
  IF cards = {} THEN "no_cards"
  ELSE IF is_pity THEN (IF SsrCards(cards) = {} THEN "no_ssr" ELSE "none")
  ELSE IF TotalProb(cards) <= 0 THEN "bad_probabilities"
  ELSE "none"

\* the cards _select_card_by_probability can return: random.choice over the
\* SSR cards, or random.choices over all cards by normalised weight
Selectable(cards, is_pity) ==
  IF is_pity THEN SsrCards(cards)
  ELSE {x[1] : x \in {y \in cards : y[2] > 0}}

IsSsrOrHigher(rarity) == rarity \in {"SSR", "UR", "LR", "EX"}

\* a counter that only a draw of rarity SSR resets
PityAfterSsrOnly(count, rarity) == IF rarity = "SSR" THEN 0 ELSE count + 1

\* a counter that no draw resets
PityAfterCounting(count, rarity) == count + 1

\* the pity counter after a draw of that rarity
PityAfter(count, rarity) == IF IsSsrOrHigher(rarity) THEN 0 ELSE count + 1

\* a request charged the single-draw cost whatever its size
SinglePullCost(count) == SINGLE_PULL_COST

\* the cost of a request of count draws
PullCost(count) == IF count = 1 THEN SINGLE_PULL_COST ELSE TEN_PULL_COST

\* the error pull_cards raises before the first draw, if any
PullError(player, pool, count) ==
  IF count \notin PullCounts THEN "bad_count"
  ELSE IF player \notin Players THEN "no_player"
  ELSE IF currency[player] < PullCost(count) THEN "insufficient_funds"
  ELSE IF pool \notin Pools THEN "no_pool"
  ELSE IF PoolCards(pool) = {} THEN "empty_pool"
  ELSE "none"

\* pity_count of the row, 0 when get_or_create_pity would create it
PityOf(rows, key) == IF key \in DOMAIN rows THEN rows[key] ELSE 0

\* pull_cards up to the first draw; get_or_create_pity commits a new row
StartPull(p, player, pool, count) ==
  /\ CanStart(p)
  /\ nops' = nops + 1
  /\ LET rec == [IdleProc EXCEPT !.op = "pull", !.actor = player, !.pool = pool, !.count = count]
         e == PullError(player, pool, count)
         key == <<player, pool>>
     IN IF e # "none"
        THEN /\ Raise(p, rec, e)
             /\ UNCHANGED pity
        ELSE /\ pity' = IF key \in DOMAIN pity THEN pity ELSE pity @@ (key :> 0)
             /\ proc' = [proc EXCEPT ![p] = [rec EXCEPT !.pc = "pull_draw", !.cur = currency[player],
                                                       !.pity = PityOf(pity, key)]]
  /\ UNCHANGED <<currency, inventory, deck, trades, events, pulls>>
  /\ UNCHANGED pvp

\* perform_single_pull: one draw on the session's pity object
Draw(p) ==
  /\ proc[p].pc = "pull_draw"
  /\ proc[p].done < proc[p].count
  /\ LET cards == PoolCards(proc[p].pool)
         is_pity == proc[p].pity >= MAX_PITY
         e == SelectError(cards, is_pity)
     IN IF e # "none"
        THEN Raise(p, proc[p], e)
        ELSE \E c \in Selectable(cards, is_pity) :
               proc' = [proc EXCEPT ![p].pity = PityAfter(proc[p].pity, Rarity(c)),
                                    ![p].done = @ + 1,
                                    ![p].drawn = BagAdd(@, [card |-> c, was_pity |-> is_pity], 1),
                                    ![p].last = [card |-> c, was_pity |-> is_pity, before |-> proc[p].pity]]
  /\ UNCHANGED <<db, nops>>
  /\ UNCHANGED pvp

\* the rows one pull request adds or updates, from the session's draws
RECURSIVE AddDrawn(_, _, _, _)
AddDrawn(rows, drawn, keys, rowOf) ==
  IF keys = {} THEN rows
  ELSE LET d == CHOOSE x \in keys : TRUE
       IN AddDrawn(BagAdd(rows, rowOf[d], drawn[d]), drawn, keys \ {d}, rowOf)

\* pull_cards after the last draw: deduct the cost, commit everything
PullCommit(p) ==
  /\ proc[p].pc = "pull_draw"
  /\ proc[p].done = proc[p].count
  /\ LET player == proc[p].actor
         pool == proc[p].pool
         drawn == proc[p].drawn
         InvRow == [d \in DOMAIN drawn |-> CardKey(player, d.card)]
         PullRow == [d \in DOMAIN drawn |-> [player_id |-> player, pool_id |-> pool,
                                             card_id |-> d.card, was_pity |-> d.was_pity]]
         EventRow == [d \in DOMAIN drawn |-> EventLog(player, "GACHA_PULL", d.card)]
     IN /\ currency' = [currency EXCEPT ![player] = proc[p].cur - PullCost(proc[p].count)]
        /\ pity' = [pity EXCEPT ![<<player, pool>>] = proc[p].pity]
        /\ inventory' = AddDrawn(inventory, drawn, DOMAIN drawn, InvRow)
        /\ pulls' = AddDrawn(pulls, drawn, DOMAIN drawn, PullRow)
        /\ events' = AddDrawn(events, drawn, DOMAIN drawn, EventRow)
        /\ Return(p, proc[p])
  /\ UNCHANGED <<deck, trades, nops>>
  /\ UNCHANGED pvp

GachaStep(p) == Draw(p) \/ PullCommit(p)

GachaCall(p) == \E a \in PlayerIds, g \in Pools \cup {9}, n \in {1, 5, 10} : StartPull(p, a, g, n)

\* the gacha scenarios: pulls only, served one after the other
NextGacha ==
  \/ nops < MaxPulls /\ Sequential /\ GachaCall(1)
  \/ GachaStep(1)

SpecGacha == Init /\ [][NextGacha]_vars

\* pity counters met on pool 4, whose weights were all set to 0
ZeroWeightPity == {<<>>, (<<2, 4>> :> MAX_PITY - 1), (<<2, 4>> :> MAX_PITY),
                   (<<1, 4>> :> MAX_PITY)}

InitZeroWeight ==
  /\ currency \in {InitCurrency(a, b) : a \in {0, 100}, b \in {500, 1000}}
  /\ pity \in ZeroWeightPity
  /\ InitRows

\* pulls served one after the other, pool 4 holding pity counters
SpecZeroWeight == InitZeroWeight /\ [][NextGacha]_vars

(* -------------------------------- shop --------------------------------- *)

ShopItems == {1, 2, 3}

ShopItemType == {"CARD", "ITEM"}

\* the shop: item 1 sells card 1, item 2 is a plain item, item 3 is a card
\* item that was stored without a card
ShopItem(item) ==
  CASE item = 1 -> [type |-> "CARD", card_id |-> Some(1), price |-> 100]
    [] item = 2 -> [type |-> "ITEM", card_id |-> None, price |-> 500]
    [] OTHER    -> [type |-> "CARD", card_id |-> None, price |-> 0]

PurchaseError(item, player) ==
  IF item \notin ShopItems THEN "no_item"
  ELSE IF player \notin Players THEN "no_player"
  ELSE IF currency[player] < ShopItem(item).price THEN "insufficient_funds"
  ELSE IF ShopItem(item).type = "CARD" /\ ~Truthy(ShopItem(item).card_id) THEN "no_card_id"
  ELSE "none"

\* purchase_shop_item: one commit
PurchaseShopItem(p, item, player) ==
  /\ CanStart(p)
  /\ nops' = nops + 1
  /\ LET rec == [IdleProc EXCEPT !.op = "buy", !.actor = player, !.arg = item]
         e == PurchaseError(item, player)
     IN IF e # "none"
        THEN /\ Raise(p, rec, e)
             /\ UNCHANGED db
        ELSE LET it == ShopItem(item)
                 key == IF it.type = "CARD" THEN CardKey(player, it.card_id[1]) ELSE ItemKey(player, item)
                 spent == BagAdd(events, EventLog(player, "SPEND_MONEY", item), 1)
             IN /\ currency' = [currency EXCEPT ![player] = @ - it.price]
                /\ inventory' = BagAdd(inventory, key, 1)
                /\ events' = IF it.type = "CARD"
                             THEN BagAdd(spent, EventLog(player, "OBTAIN_CARD", it.card_id[1]), 1)
                             ELSE spent
                /\ Return(p, rec)
                /\ UNCHANGED <<deck, trades, pulls, pity>>
  /\ UNCHANGED pvp

(* --------------------------------- pvp --------------------------------- *)

DuelBetError(winner, loser, bet_amount) ==
  IF winner \notin Players \/ loser \notin Players THEN "no_player"
  ELSE IF currency[loser] < bet_amount THEN "insufficient_funds"
  ELSE "none"

\* the end of a duel: the bet is processed when there is one (process_duel_bet)
ProcessDuelBet(p, winner, loser, bet_amount) ==
  /\ CanStart(p)
  /\ nops' = nops + 1
  /\ LET rec == [IdleProc EXCEPT !.op = "duel", !.actor = loser, !.peer = winner,
                                 !.arg = bet_amount, !.amount = bet_amount]
         e == DuelBetError(winner, loser, bet_amount)
     IN IF ~(bet_amount > 0)
        THEN /\ Return(p, rec)
             /\ UNCHANGED db
        ELSE IF e # "none"
        THEN /\ Raise(p, rec, e)
             /\ UNCHANGED db
        ELSE /\ currency' = TransferCurrency(currency, loser, winner, bet_amount)
             /\ events' = BagAdd(BagAdd(events, EventLog(winner, "EARN_MONEY", loser), 1),
                                 EventLog(loser, "SPEND_MONEY", winner), 1)
             /\ Return(p, rec)
             /\ UNCHANGED <<inventory, deck, trades, pulls, pity>>
  /\ UNCHANGED pvp

(* ------------------------------ pvp ranks ------------------------------ *)

\* the clock counts slots of 8 hours
SlotsPerDay == 3

DaysPerWeek == 7

\* timedelta(hours=8), in slots
UTC8 == 1

Min(a, b) == IF a < b THEN a ELSE b

Max(a, b) == IF a > b THEN a ELSE b

Abs(a) == IF a < 0 THEN -a ELSE a

\* a datetime: an instant and the UTC offset it carries (None when naive,
\* t being wall-clock time then)
Aware(t, off) == [t |-> t, tz |-> Some(off)]

\* datetime.date(): the calendar day of the wall-clock time
Date(dt) == (dt.t + (IF dt.tz = None THEN 0 ELSE dt.tz[1])) \div SlotsPerDay

get_utc8_now == Aware(now, UTC8)

\* a DateTime(timezone=True) column keeps the instant; the value read back
\* carries the offset of the database session
ToDb(dt) == dt.t

FromDb(o) == IF o = None THEN None ELSE Some(Aware(o[1], dbtz))

\* the offsets a database session can hand out: UTC or UTC+8
DbOffsets == {0, UTC8}

is_new_day(last_date) ==
  IF last_date = None THEN TRUE
  ELSE LET last == IF last_date[1].tz = None
                   THEN [last_date[1] EXCEPT !.t = @ + UTC8]
                   ELSE last_date[1]
       IN Date(get_utc8_now) > Date(last)

\* slot 0 of the clock is Monday 1970-01-05 00:00 UTC, this many days after
\* the epoch (a Thursday)
EpochDays == 4

\* datetime.timestamp(), in slots since the epoch
Timestamp(t) == t + EpochDays * SlotsPerDay

\* datetime.weekday(): Monday is 0
Weekday(t) == (t \div SlotsPerDay) % DaysPerWeek

\* whole weeks since the epoch of the shifted instant itself
WeeksSinceEpoch == Timestamp(now + UTC8) \div (DaysPerWeek * SlotsPerDay)

get_current_week ==
  LET shifted == now + UTC8
      monday == shifted - Weekday(shifted) * SlotsPerDay
  IN Timestamp(monday) \div (DaysPerWeek * SlotsPerDay)

\* the row get_player_rank creates on first access
NewRank(player, week) ==
  [player_id |-> player, week |-> week, points |-> 50, score_updated_at |-> ToDb(get_utc8_now),
   daily_plays |-> 0, last_play_date |-> None, daily_bet_amount |-> 0, last_bet_date |-> None]

RankIds(rows, player, week) ==
  {i \in DOMAIN rows : rows[i].player_id = player /\ rows[i].week = week}

\* get_player_rank: the table after the lazy creation
EnsureRank(rows, player, week) ==
  IF RankIds(rows, player, week) = {} THEN Append(rows, NewRank(player, week)) ELSE rows

\* charge_play_fee: nothing to do for a free play, else one commit; the
\* event's context reads the payer's rank row, which get_player_rank creates
\* when it is missing
ChargePlayFee(p, player, fee) ==
  /\ CanStart(p)
  /\ nops' = nops + 1
  /\ LET rec == [IdleProc EXCEPT !.op = "fee", !.actor = player, !.arg = fee, !.amount = fee]
     IN IF fee = 0
        THEN /\ Return(p, rec)
             /\ UNCHANGED <<db, ranks>>
        ELSE IF player \notin Players \/ currency[player] < fee
        THEN /\ Raise(p, rec, "cannot_pay")
             /\ UNCHANGED <<db, ranks>>
        ELSE /\ currency' = [currency EXCEPT ![player] = @ - fee]
             /\ ranks' = EnsureRank(ranks, player, get_current_week)
             /\ events' = BagAdd(events, EventLog(player, "RANKED_PLAY_FEE", fee), 1)
             /\ Return(p, rec)
             /\ UNCHANGED <<inventory, deck, trades, pulls, pity>>
  /\ UNCHANGED <<now, dbtz, playlog, calc>>
  /\ UNCHANGED arena

\* get_player_leaderboard_rank of row i: rows of the week with more points,
\* or as many points and an earlier score_updated_at, plus one
LeaderboardRank(rows, i) ==
  Cardinality({j \in DOMAIN rows :
                 /\ rows[j].week = rows[i].week
                 /\ \/ rows[j].points > rows[i].points
                    \/ /\ rows[j].points = rows[i].points
                       /\ rows[j].score_updated_at < rows[i].score_updated_at}) + 1

\* math.floor(n / 2)
Floor2(n) == n \div 2

\* math.ceil(n / 2)
Ceil2(n) == -((-n) \div 2)

calculate_score_change(winner_rank, loser_rank, loser_score) ==
  LET rank_diff == loser_rank - winner_rank
      score_change == IF rank_diff > 50 THEN 1
                      ELSE IF rank_diff > 0 THEN Min(rank_diff, 50)
                      ELSE Ceil2(50 - Abs(rank_diff))
  IN Min(score_change, loser_score)

\* inputs of the score formula: ranks around the 50-place thresholds
RankInputs == {1, 2, 3, 4, 5, 51, 52, 53, 56, 60, 61, 110}

ScoreInputs == {0, 1, 24, 25, 50, 80}

InitScore ==
  /\ calc \in [winner_rank : RankInputs, loser_rank : RankInputs, loser_score : ScoreInputs,
               out : {None}]
  /\ requests = {} /\ challenges = <<>>
  /\ ranks = <<>> /\ now = 0 /\ dbtz = 0 /\ playlog = <<>>
  /\ currency = InitCurrency(0, 0)
  /\ pity = <<>>
  /\ inventory = InitInventory /\ deck = InitDeck /\ trades = <<>> /\ events = <<>>
  /\ pulls = <<>> /\ proc = [q \in Procs |-> IdleProc] /\ nops = 0

\* one evaluation of calculate_score_change
EvalScoreChange ==
  /\ calc.out = None
  /\ calc' = [calc EXCEPT !.out = Some(calculate_score_change(calc.winner_rank, calc.loser_rank,
                                                               calc.loser_score))]
  /\ UNCHANGED <<db, proc, nops, ranks, now, dbtz, playlog>>
  /\ UNCHANGED arena

NextScore == EvalScoreChange

SpecScore == InitScore /\ [][NextScore]_vars

(* ---------------------------- ranked battle --------------------------- *)

\* players of the week who never play: as many rows, all at 50 points
CrowdSize == 60

CrowdRows == [i \in 1..CrowdSize |-> [NewRank(100 + i, 0) EXCEPT !.score_updated_at = 0]]

\* the rank rows of players 1, 2, 3 with the given points
PlayerRows(pts) == [i \in 1..3 |-> [NewRank(i, 0) EXCEPT !.points = pts[i], !.score_updated_at = i - 1]]

\* a week in progress: 150 points among the three players, the crowd at 50
InitRanked ==
  /\ now = 2 /\ dbtz = 0 /\ playlog = <<>> /\ calc = <<>>
  /\ requests = {} /\ challenges = <<>>
  /\ ranks \in {CrowdRows \o PlayerRows(pts) : pts \in {<<100, 0, 50>>, <<97, 3, 50>>, <<50, 50, 50>>}}
  /\ currency = InitCurrency(0, 500)
  /\ pity = <<>>
  /\ inventory = InitInventory /\ deck = InitDeck /\ trades = <<>> /\ events = <<>>
  /\ pulls = <<>> /\ proc = [q \in Procs |-> IdleProc] /\ nops = 0

\* time passes
Tick ==
  /\ now' = now + 1
  /\ UNCHANGED <<db, proc, nops, ranks, dbtz, playlog, calc>>
  /\ UNCHANGED arena

\* update_scores_after_battle: the table after the battle, for the rows w
\* and l that get_player_rank returned
ScoresAfterBattle(rows, w, l) ==
  LET score_change == calculate_score_change(LeaderboardRank(rows, w), LeaderboardRank(rows, l),
                                             rows[l].points)
      won == [rows EXCEPT ![w].points = @ + score_change,
                          ![w].score_updated_at = ToDb(get_utc8_now)]
  IN [won EXCEPT ![l].points = Max(0, rows[l].points - score_change),
                 ![l].score_updated_at = IF score_change > 0 THEN ToDb(get_utc8_now) ELSE @]

\* the end of a ranked battle (update_scores_after_battle)
ResolveRanked(p, winner, loser) ==
  /\ CanStart(p)
  /\ nops' = nops + 1
  /\ LET week == get_current_week
         rows == EnsureRank(EnsureRank(ranks, winner, week), loser, week)
     IN \E w \in RankIds(rows, winner, week), l \in RankIds(rows, loser, week) :
          LET score_change == calculate_score_change(LeaderboardRank(rows, w),
                                                     LeaderboardRank(rows, l), rows[l].points)
              rec == [IdleProc EXCEPT !.op = "ranked", !.actor = winner, !.peer = loser,
                                      !.amount = score_change]
          IN /\ ranks' = ScoresAfterBattle(rows, w, l)
             /\ events' = BagAdd(BagAdd(events, EventLog(winner, "RANKED_SCORE_GAINED", loser), 1),
                                 EventLog(loser, "RANKED_SCORE_LOST", winner), 1)
             /\ Return(p, rec)
  /\ UNCHANGED <<currency, inventory, deck, trades, pulls, pity, now, dbtz, playlog, calc>>
  /\ UNCHANGED arena

BattleCall(p) ==
  \/ \E a, b \in Players : a # b /\ ResolveRanked(p, a, b)
  \/ \E a, b \in Players, m \in {0, 100, 600} : a # b /\ ProcessDuelBet(p, a, b, m)

\* battles resolved one after the other
NextRanked ==
  \/ nops < MaxBattles /\ Sequential /\ BattleCall(1)
  \/ now < MaxBattleTime /\ Tick

SpecRanked == InitRanked /\ [][NextRanked]_vars

(* ----------------------------- daily plays ----------------------------- *)

\* a schedule whose eleventh play is still free
PlayFeeFromEleventh(plays) ==
  IF plays <= 10 THEN 0 ELSE 500 * (2 ^ ((plays - 10) \div 5))

\* the fee of check_daily_limit_and_get_fee for a daily play counter
PlayFee(plays) ==
  IF plays < 10 THEN 0 ELSE 500 * (2 ^ ((plays - 10) \div 5))

\* check_daily_limit_and_get_fee: the row is created on first access, the
\* counter is reset when the stored last-play date is on an earlier day, and
\* the fee follows from the counter
CheckFee(p, player) ==
  /\ CanStart(p)
  /\ nops' = nops + 1
  /\ LET week == get_current_week
         rows == EnsureRank(ranks, player, week)
     IN \E i \in RankIds(rows, player, week) :
          LET reset == is_new_day(FromDb(rows[i].last_play_date))
              after == IF reset
                       THEN [rows EXCEPT ![i].daily_plays = 0,
                                         ![i].last_play_date = Some(ToDb(get_utc8_now))]
                       ELSE rows
              plays == after[i].daily_plays
              rec == [IdleProc EXCEPT !.op = "check_fee", !.actor = player, !.count = plays,
                                      !.amount = PlayFee(plays), !.done = IF reset THEN 1 ELSE 0]
          IN /\ ranks' = after
             /\ Return(p, rec)
  /\ UNCHANGED <<db, now, dbtz, playlog, calc>>
  /\ UNCHANGED arena

\* increment_daily_plays: one more play, stamped now; playlog remembers the
\* instant of every play
IncrementPlays(p, player) ==
  /\ CanStart(p)
  /\ nops' = nops + 1
  /\ LET week == get_current_week
         rows == EnsureRank(ranks, player, week)
     IN \E i \in RankIds(rows, player, week) :
          /\ ranks' = [rows EXCEPT ![i].daily_plays = @ + 1,
                                   ![i].last_play_date = Some(ToDb(get_utc8_now))]
          /\ Return(p, [IdleProc EXCEPT !.op = "play", !.actor = player,
                                        !.count = rows[i].daily_plays + 1])
  /\ playlog' = BagAdd(playlog, <<player, now>>, 1)
  /\ UNCHANGED <<db, now, dbtz, calc>>
  /\ UNCHANGED arena

\* plays player 1 has behind them today when the run starts
PlayedInputs == {0, 8, 13, 18, 23}

\* the run starts at 08:00 UTC, 16:00 UTC+8, of the second day
InitDaily ==
  /\ now = 3 /\ dbtz \in DbOffsets /\ calc = <<>>
  /\ requests = {} /\ challenges = <<>>
  /\ \E k \in PlayedInputs :
       IF k = 0
       THEN ranks = <<>> /\ playlog = <<>>
       ELSE /\ ranks = <<[NewRank(1, get_current_week) EXCEPT
                            !.daily_plays = k, !.last_play_date = Some(ToDb(get_utc8_now))]>>
            /\ playlog = (<<1, now>> :> k)
  /\ currency = InitCurrency(0, 0)
  /\ pity = <<>>
  /\ inventory = InitInventory /\ deck = InitDeck /\ trades = <<>> /\ events = <<>>
  /\ pulls = <<>> /\ proc = [q \in Procs |-> IdleProc] /\ nops = 0

DailyCall(p) ==
  \/ \E a \in {1, 2} : CheckFee(p, a)
  \/ \E a \in {1, 2} : IncrementPlays(p, a)

\* fee checks and plays served one after the other while time passes
NextDaily ==
  \/ nops < MaxPlays /\ Sequential /\ DailyCall(1)
  \/ now < MaxPlayTime /\ Tick

SpecDaily == InitDaily /\ [][NextDaily]_vars

(* ------------------------------ duel bets ------------------------------ *)

MAX_BET == 100000

DAILY_BET_LIMIT == 1000000

\* what one validate_player_can_bet call finds and leaves: the verdict, the
\* rank table (row created on first access, daily_bet_amount reset on a new
\* day), whether it committed, and the row it read
BetVerdict(ok, rows, committed, row) ==
  [ok |-> ok, rows |-> rows, committed |-> committed, row |-> row]

\* check_daily_bet_limit on row i of the table get_player_rank left
CheckDailyBetLimit(rows, i, bet_amount, created) ==
  LET reset == is_new_day(FromDb(rows[i].last_bet_date))
      after == IF reset
               THEN [rows EXCEPT ![i].daily_bet_amount = 0,
                                 ![i].last_bet_date = Some(ToDb(get_utc8_now))]
               ELSE rows
  IN BetVerdict(after[i].daily_bet_amount + bet_amount <= DAILY_BET_LIMIT, after,
                created \/ reset, i)

\* validate_player_can_bet, the outcomes it can have (one per row that
\* get_player_rank may return)
ValidatePlayerCanBet(rows, player, bet_amount) ==
  IF bet_amount < 1 \/ bet_amount > MAX_BET THEN {BetVerdict(FALSE, rows, FALSE, 0)}
  ELSE IF player \notin Players \/ currency[player] < bet_amount
  THEN {BetVerdict(FALSE, rows, FALSE, 0)}
  ELSE LET week == get_current_week
           found == EnsureRank(rows, player, week)
       IN {CheckDailyBetLimit(found, i, bet_amount, found # rows) :
             i \in RankIds(found, player, week)}

\* increment_daily_bet_amount on row i, base being the daily_bet_amount the
\* session holds for it
IncrementDailyBetAmount(rows, i, base, bet_amount) ==
  [rows EXCEPT ![i].daily_bet_amount = base + bet_amount,
               ![i].last_bet_date = Some(ToDb(get_utc8_now))]

\* /duel: the command checks the range and the challenger, then posts the
\* request
DuelFight(p, challenger, opponent, bet) ==
  /\ CanStart(p)
  /\ nops' = nops + 1
  /\ LET rec == [IdleProc EXCEPT !.op = "duel_fight", !.actor = challenger, !.peer = opponent,
                                 !.amount = bet]
     IN IF challenger = opponent
        THEN /\ proc' = [proc EXCEPT ![p] = Outcome(rec, "rejected", "self")]
             /\ UNCHANGED ranks
        ELSE IF bet < 1 \/ bet > MAX_BET
        THEN /\ proc' = [proc EXCEPT ![p] = Outcome(rec, "rejected", "range")]
             /\ UNCHANGED ranks
        ELSE \E v \in ValidatePlayerCanBet(ranks, challenger, bet) :
               /\ ranks' = v.rows
               /\ proc' = [proc EXCEPT ![p] = Outcome(rec, IF v.ok THEN "ok" ELSE "rejected",
                                                      IF v.ok THEN "none" ELSE "cannot_bet")]
  /\ UNCHANGED <<db, now, dbtz, playlog, calc>>
  /\ UNCHANGED arena

\* PvPDuelAccept.callback, first stretch: both players are validated; the
\* challenger's rank row stays loaded in the session unless the opponent's
\* validation committed
DuelAcceptValidate(p, challenger, opponent, bet) ==
  /\ CanStart(p)
  /\ nops' = nops + 1
  /\ LET rec == [IdleProc EXCEPT !.op = "duel_accept", !.actor = challenger, !.peer = opponent,
                                 !.amount = bet]
     IN \E c \in ValidatePlayerCanBet(ranks, challenger, bet) :
          IF ~c.ok
          THEN /\ ranks' = c.rows
               /\ proc' = [proc EXCEPT ![p] = Outcome(rec, "rejected", "challenger")]
          ELSE \E o \in ValidatePlayerCanBet(c.rows, opponent, bet) :
                 /\ ranks' = o.rows
                 /\ IF ~o.ok
                    THEN proc' = [proc EXCEPT ![p] = Outcome(rec, "rejected", "opponent")]
                    ELSE proc' = [proc EXCEPT ![p] =
                           [rec EXCEPT !.pc = "inc_challenger",
                                       !.loaded = IF o.committed THEN None
                                                  ELSE Some(c.rows[c.row].daily_bet_amount)]]
  /\ UNCHANGED <<db, now, dbtz, playlog, calc>>
  /\ UNCHANGED arena

\* second stretch: increment_daily_bet_amount for the challenger, on the
\* loaded row when the session still holds it; playlog remembers the bet
DuelAcceptIncChallenger(p) ==
  /\ proc[p].pc = "inc_challenger"
  /\ LET player == proc[p].actor
         week == get_current_week
         rows == EnsureRank(ranks, player, week)
     IN \E i \in RankIds(rows, player, week) :
          LET base == IF proc[p].loaded # None THEN proc[p].loaded[1]
                      ELSE rows[i].daily_bet_amount
          IN ranks' = IncrementDailyBetAmount(rows, i, base, proc[p].amount)
  /\ playlog' = BagAdd(playlog, <<proc[p].actor, now>>, proc[p].amount)
  /\ proc' = [proc EXCEPT ![p].pc = "inc_opponent", ![p].loaded = None]
  /\ UNCHANGED <<db, nops, now, dbtz, calc>>
  /\ UNCHANGED arena

\* the PvPChallenge row the accept callbacks create
NewChallenge(challenger, opponent, mode, bet) ==
  [challenger_id |-> challenger, opponent_id |-> opponent, winner_id |-> None,
   status |-> "ONGOING", mode |-> mode, bet |-> bet]

\* third stretch: increment_daily_bet_amount for the opponent; the commit
\* before it expired the session's rows, so the row is read again
DuelAcceptIncOpponent(p) ==
  /\ proc[p].pc = "inc_opponent"
  /\ LET player == proc[p].peer
         week == get_current_week
         rows == EnsureRank(ranks, player, week)
     IN \E i \in RankIds(rows, player, week) :
          ranks' = IncrementDailyBetAmount(rows, i, rows[i].daily_bet_amount, proc[p].amount)
  /\ playlog' = BagAdd(playlog, <<proc[p].peer, now>>, proc[p].amount)
  /\ challenges' = Append(challenges,
                          NewChallenge(proc[p].actor, proc[p].peer, "DUEL", proc[p].amount))
  /\ proc' = [proc EXCEPT ![p].pc = "battle"]
  /\ UNCHANGED <<db, nops, now, dbtz, calc, requests>>

\* last stretch: execute_battle names a winner, whose id comes from the
\* battle's answer, and process_duel_bet moves the bet
DuelAcceptBattle(p) ==
  /\ proc[p].pc = "battle"
  /\ \E winner \in {proc[p].actor, proc[p].peer, 9} :
       LET loser == IF winner = proc[p].actor THEN proc[p].peer ELSE proc[p].actor
           bet == proc[p].amount
           e == DuelBetError(winner, loser, bet)
       IN IF e # "none"
          THEN /\ Raise(p, [proc[p] EXCEPT !.peer = 0], e)
               /\ UNCHANGED db
          ELSE /\ currency' = TransferCurrency(currency, loser, winner, bet)
               /\ events' = BagAdd(BagAdd(events, EventLog(winner, "EARN_MONEY", loser), 1),
                                   EventLog(loser, "SPEND_MONEY", winner), 1)
               /\ Return(p, proc[p])
               /\ UNCHANGED <<inventory, deck, trades, pulls, pity>>
  /\ UNCHANGED <<nops, pvp>>

\* player 1 has bet 900000 today, player 2 reached the cap yesterday,
\* player 3 has no rank row and no currency
InitDuel ==
  /\ now = 3 /\ dbtz \in DbOffsets /\ calc = <<>>
  /\ requests = {} /\ challenges = <<>>
  /\ ranks = <<[NewRank(1, get_current_week) EXCEPT
                  !.daily_bet_amount = 900000, !.last_bet_date = Some(ToDb(get_utc8_now))],
               [NewRank(2, get_current_week) EXCEPT
                  !.daily_bet_amount = DAILY_BET_LIMIT, !.last_bet_date = Some(0)]>>
  /\ playlog = (<<1, now>> :> 900000)
  /\ currency = InitCurrency(200000, 100000)
  /\ pity = <<>>
  /\ inventory = InitInventory /\ deck = InitDeck /\ trades = <<>> /\ events = <<>>
  /\ pulls = <<>> /\ proc = [q \in Procs |-> IdleProc] /\ nops = 0

DuelStep(p) ==
  \/ DuelAcceptIncChallenger(p)
  \/ DuelAcceptIncOpponent(p)
  \/ DuelAcceptBattle(p)

DuelCall(p) ==
  \/ \E a, b \in Players, m \in {0, MAX_BET, MAX_BET + 1} : DuelFight(p, a, b, m)
  \/ \E a, b \in Players, m \in {MAX_BET \div 2, MAX_BET} : a # b /\ DuelAcceptValidate(p, a, b, m)

\* duel handlers interleaved at their commits
NextDuel == \E p \in Procs : (nops < MaxDuels /\ DuelCall(p)) \/ DuelStep(p)

SpecDuel == InitDuel /\ [][NextDuel]_vars

(* ---------------------------- weekly rollover -------------------------- *)

\* get_player_rank on its own: the first access of a week creates the row
GetPlayerRank(p, player) ==
  /\ CanStart(p)
  /\ nops' = nops + 1
  /\ ranks' = EnsureRank(ranks, player, get_current_week)
  /\ Return(p, [IdleProc EXCEPT !.op = "get_rank", !.actor = player,
                                !.count = Len(EnsureRank(ranks, player, get_current_week))])
  /\ UNCHANGED <<db, now, dbtz, playlog, calc>>
  /\ UNCHANGED arena

\* the rows of a week, in table order
RowsOfWeek(rows, week) == SelectSeq(rows, LAMBDA r : r.week = week)

\* reset_weekly_rankings: one new row per row of the old week
ResetRows(rows, old_week, new_week) ==
  LET old_ranks == RowsOfWeek(rows, old_week)
  IN rows \o [i \in 1..Len(old_ranks) |-> NewRank(old_ranks[i].player_id, new_week)]

ResetWeeklyRankings(p) ==
  /\ CanStart(p)
  /\ nops' = nops + 1
  /\ ranks' = ResetRows(ranks, get_current_week - 1, get_current_week)
  /\ Return(p, [IdleProc EXCEPT !.op = "reset",
                                !.count = Len(RowsOfWeek(ranks, get_current_week - 1))])
  /\ UNCHANGED <<db, now, dbtz, playlog, calc>>
  /\ UNCHANGED arena

\* reward_tiers of distribute_weekly_rewards
RewardOf(rank) ==
  CASE rank = 1 -> 50000
    [] rank = 2 -> 40000
    [] rank = 3 -> 30000
    [] rank \in 4..5 -> 20000
    [] rank \in 6..10 -> 10000
    [] rank \in 11..100 -> 1000
    [] OTHER -> 0

\* rows with the points and the score_updated_at of row i: the query's order
\* among them is not determined
TiedWith(rows, i) ==
  {j \in DOMAIN rows : /\ rows[j].week = rows[i].week
                       /\ rows[j].points = rows[i].points
                       /\ rows[j].score_updated_at = rows[i].score_updated_at}

\* the rows of a week whose players' balances the model follows
Followed(rows, week) == {i \in DOMAIN rows : rows[i].week = week /\ rows[i].player_id \in Players}

\* get_leaderboard: the positions the query can give the followed rows of a
\* week, rows in a tie taking the places of their group in any order
Leaderboards(rows, week) ==
  LET F == Followed(rows, week)
  IN {[i \in F |-> LeaderboardRank(rows, i) + off[i]] :
        off \in {o \in [F -> 0..(Cardinality(F) - 1)] :
                   /\ \A i \in F : o[i] < Cardinality(TiedWith(rows, i))
                   /\ \A i, j \in F :
                        (i # j /\ j \in TiedWith(rows, i)) => o[i] # o[j]}}

RECURSIVE CreditRewards(_, _, _, _)
CreditRewards(cur, rows, pos, S) ==
  IF S = {} THEN cur
  ELSE LET i == CHOOSE x \in S : TRUE
       IN CreditRewards([cur EXCEPT ![rows[i].player_id] = @ + RewardOf(pos[i])], rows, pos,
                        S \ {i})

RECURSIVE LogRewards(_, _, _, _)
LogRewards(ev, rows, pos, S) ==
  IF S = {} THEN ev
  ELSE LET i == CHOOSE x \in S : TRUE
       IN LogRewards(BagAdd(ev, EventLog(rows[i].player_id, "RANKED_WEEKLY_REWARD", pos[i]), 1),
                     rows, pos, S \ {i})

\* distribute_weekly_rewards: the first 100 rows of last week's leaderboard
\* are paid by position; the other players' balances are not followed
DistributeWeeklyRewards(p) ==
  /\ CanStart(p)
  /\ nops' = nops + 1
  /\ LET week == get_current_week - 1
     IN \E pos \in Leaderboards(ranks, week) :
          LET paid == {i \in DOMAIN pos : pos[i] <= 100 /\ RewardOf(pos[i]) > 0}
          IN /\ currency' = CreditRewards(currency, ranks, pos, paid)
             /\ events' = LogRewards(events, ranks, pos, paid)
             /\ Return(p, [IdleProc EXCEPT !.op = "rewards", !.count = Cardinality(paid)])
  /\ UNCHANGED <<inventory, deck, trades, pulls, pity, pvp>>

\* the other players of week 0: k of them ahead of players 1 and 2, the rest
\* behind every row of 50 points, no two of them with the same points and
\* score_updated_at
BoardRows(k) ==
  [i \in 1..BoardCrowd |->
     IF i <= k
     THEN [NewRank(100 + i, 0) EXCEPT !.points = 1000 - 2 * i, !.score_updated_at = 0]
     ELSE [NewRank(100 + i, 0) EXCEPT !.points = 49 - ((i - k - 1) % 50),
                                      !.score_updated_at = (i - k - 1) \div 50]]

\* the number of other players ahead of players 1 and 2
AheadInputs == {0, 1, 2, 3, 7, 8, 9, BoardCrowd - 4, BoardCrowd - 3, BoardCrowd - 2, BoardCrowd - 1}

\* Sunday evening (UTC+8) of week 0: players 1 and 2 have played this week,
\* player 2 as many points as player 1 or one less; player 3 played the week
\* before and not yet this week
InitWeek ==
  /\ now = 19 /\ dbtz = 0 /\ playlog = <<>> /\ calc = <<>>
  /\ requests = {} /\ challenges = <<>>
  /\ \E k \in AheadInputs, d \in {0, 1} :
       ranks = BoardRows(k)
               \o <<[NewRank(1, 0) EXCEPT !.points = 500, !.score_updated_at = 5],
                    [NewRank(2, 0) EXCEPT !.points = 500 - d, !.score_updated_at = 5],
                    [NewRank(3, -1) EXCEPT !.points = 70, !.score_updated_at = 0]>>
  /\ currency = InitCurrency(0, 0)
  /\ pity = <<>>
  /\ inventory = InitInventory /\ deck = InitDeck /\ trades = <<>> /\ events = <<>>
  /\ pulls = <<>> /\ proc = [q \in Procs |-> IdleProc] /\ nops = 0

WeekCall(p) ==
  \/ \E a \in Players : GetPlayerRank(p, a)
  \/ ResetWeeklyRankings(p)
  \/ DistributeWeeklyRewards(p)

\* rank accesses, rollovers and reward runs in any order around the end of
\* the week
NextWeek ==
  \/ nops < MaxWeekOps /\ Sequential /\ WeekCall(1)
  \/ now < MaxWeekTime /\ Tick

SpecWeek == InitWeek /\ [][NextWeek]_vars

(* ----------------------------- ranked arena --------------------------- *)

\* the winner_id field of a judge answer: absent, a number, or a text that
\* is no number
NoWinnerId == [kind |-> "missing", v |-> 0]

\* answers of the judge: content "empty" (no content), "garbage" (not JSON)
\* or "object"; the winner field absent, "A", "B", another text ("draw"), or
\* not a text ("null")
JudgeResponses ==
  {[content |-> "empty", winner |-> "missing", winner_id |-> NoWinnerId],
   [content |-> "garbage", winner |-> "missing", winner_id |-> NoWinnerId],
   [content |-> "object", winner |-> "A", winner_id |-> NoWinnerId],
   [content |-> "object", winner |-> "B", winner_id |-> NoWinnerId],
   [content |-> "object", winner |-> "null", winner_id |-> NoWinnerId],
   [content |-> "object", winner |-> "missing", winner_id |-> NoWinnerId],
   [content |-> "object", winner |-> "draw", winner_id |-> [kind |-> "text", v |-> 0]],
   [content |-> "object", winner |-> "draw", winner_id |-> [kind |-> "int", v |-> 2]],
   [content |-> "object", winner |-> "missing", winner_id |-> [kind |-> "int", v |-> 3]],
   [content |-> "object", winner |-> "missing", winner_id |-> [kind |-> "int", v |-> 9]]}

\* execute_battle, from the judge's answer to winner_id: the exception that
\* leaves the function, or the winner
JudgeWinner(resp, challenger_id, opponent_id) ==
  IF resp.content = "empty" THEN [err |-> "empty_response", winner_id |-> 0]
  ELSE IF resp.content = "garbage" THEN [err |-> "json_decode", winner_id |-> 0]
  ELSE IF resp.winner = "null" THEN [err |-> "attribute_error", winner_id |-> 0]
  ELSE IF resp.winner = "A" THEN [err |-> "none", winner_id |-> challenger_id]
  ELSE IF resp.winner = "B" THEN [err |-> "none", winner_id |-> opponent_id]
  ELSE IF resp.winner_id.kind = "int" THEN [err |-> "none", winner_id |-> resp.winner_id.v]
  ELSE [err |-> "none", winner_id |-> challenger_id]

\* check_daily_limit_and_get_fee as a function of the table: the tables it
\* can leave, each with the fee it returns
FeeChecks(rows, player) ==
  LET week == get_current_week
      found == EnsureRank(rows, player, week)
  IN {LET reset == is_new_day(FromDb(found[i].last_play_date))
          after == IF reset
                   THEN [found EXCEPT ![i].daily_plays = 0,
                                      ![i].last_play_date = Some(ToDb(get_utc8_now))]
                   ELSE found
      IN [rows |-> after, fee |-> PlayFee(after[i].daily_plays)] :
        i \in RankIds(found, player, week)}

\* /fight rank: the stakes are computed (which creates the rank rows), both
\* fees are quoted and the request is posted with them
RankFight(p, challenger, opponent) ==
  /\ CanStart(p)
  /\ nops' = nops + 1
  /\ LET rec == [IdleProc EXCEPT !.op = "rank_fight", !.actor = challenger, !.peer = opponent]
         week == get_current_week
     IN IF challenger = opponent
        THEN /\ proc' = [proc EXCEPT ![p] = Outcome(rec, "rejected", "self")]
             /\ UNCHANGED <<ranks, requests>>
        ELSE \E c \in FeeChecks(EnsureRank(EnsureRank(ranks, challenger, week), opponent, week),
                                challenger) :
               \E o \in FeeChecks(c.rows, opponent) :
                 /\ ranks' = o.rows
                 /\ requests' = requests \cup {[challenger_id |-> challenger,
                                                 opponent_id |-> opponent,
                                                 challenger_fee |-> c.fee,
                                                 opponent_fee |-> o.fee]}
                 /\ Return(p, [rec EXCEPT !.amount = c.fee])
  /\ UNCHANGED <<db, now, dbtz, playlog, calc, challenges>>

\* the tables increment_daily_plays can leave
PlaysIncremented(rows, player) ==
  LET week == get_current_week
      found == EnsureRank(rows, player, week)
  IN {[found EXCEPT ![i].daily_plays = @ + 1, ![i].last_play_date = Some(ToDb(get_utc8_now))] :
        i \in RankIds(found, player, week)}

\* the tables update_scores_after_battle can leave
BattleScores(rows, winner, loser) ==
  LET week == get_current_week
      found == EnsureRank(EnsureRank(rows, winner, week), loser, week)
  IN {ScoresAfterBattle(found, w, l) :
        w \in RankIds(found, winner, week), l \in RankIds(found, loser, week)}

\* PvPAccept.callback, served in one piece: the quoted fees are charged, the
\* challenge is created, both play counters are incremented and the battle
\* is judged and resolved; what was committed before a failure stays
AcceptRanked(p, req, resp) ==
  /\ CanStart(p)
  /\ nops' = nops + 1
  /\ LET c == req.challenger_id
         o == req.opponent_id
         week == get_current_week
         rec == [IdleProc EXCEPT !.op = "accept_ranked", !.actor = c, !.peer = o]
         payC == req.challenger_fee > 0
         payO == req.opponent_fee > 0
         cur1 == IF payC THEN [currency EXCEPT ![c] = @ - req.challenger_fee] ELSE currency
         rows1 == IF payC THEN EnsureRank(ranks, c, week) ELSE ranks
         ev1 == IF payC THEN BagAdd(events, EventLog(c, "RANKED_PLAY_FEE", req.challenger_fee), 1)
                ELSE events
         cur2 == IF payO THEN [cur1 EXCEPT ![o] = @ - req.opponent_fee] ELSE cur1
         rows2 == IF payO THEN EnsureRank(rows1, o, week) ELSE rows1
         ev2 == IF payO THEN BagAdd(ev1, EventLog(o, "RANKED_PLAY_FEE", req.opponent_fee), 1)
                ELSE ev1
         v == JudgeWinner(resp, c, o)
         loser == IF v.winner_id = c THEN o ELSE c
     IN IF payC /\ currency[c] < req.challenger_fee
        THEN /\ proc' = [proc EXCEPT ![p] = Outcome(rec, "error", "challenger_fee")]
             /\ UNCHANGED <<currency, events, ranks, playlog, challenges>>
        ELSE IF payO /\ cur1[o] < req.opponent_fee
        THEN /\ proc' = [proc EXCEPT ![p] = Outcome(rec, "error", "opponent_fee")]
             /\ currency' = cur1 /\ events' = ev1 /\ ranks' = rows1
             /\ UNCHANGED <<playlog, challenges>>
        ELSE /\ currency' = cur2
             /\ challenges' = Append(challenges, NewChallenge(c, o, "RANKED", 0))
             /\ playlog' = BagAdd(BagAdd(playlog, <<c, now>>, 1), <<o, now>>, 1)
             /\ \E r3 \in PlaysIncremented(rows2, c) :
                  \E r4 \in PlaysIncremented(r3, o) :
                    IF v.err # "none"
                    THEN /\ proc' = [proc EXCEPT ![p] = Outcome(rec, "error", v.err)]
                         /\ ranks' = r4 /\ events' = ev2
                    ELSE IF v.winner_id \notin Players
                    THEN /\ proc' = [proc EXCEPT ![p] = Outcome(rec, "error", "integrity")]
                         /\ ranks' = r4 /\ events' = ev2
                    ELSE /\ ranks' \in BattleScores(r4, v.winner_id, loser)
                         /\ events' = BagAdd(BagAdd(ev2,
                                                    EventLog(v.winner_id, "RANKED_SCORE_GAINED", loser), 1),
                                             EventLog(loser, "RANKED_SCORE_LOST", v.winner_id), 1)
                         /\ Return(p, [rec EXCEPT !.winner = v.winner_id])
  /\ UNCHANGED <<inventory, deck, trades, pulls, pity, now, dbtz, calc, requests>>

\* the plays player 1 has behind them today
ArenaInputs == {1, 9, 14}

\* players 1 and 2 have played today and can pay a fee; player 3 has not
\* played this week
InitArena ==
  /\ now = 3 /\ dbtz = UTC8 /\ calc = <<>>
  /\ requests = {} /\ challenges = <<>>
  /\ \E k \in ArenaInputs :
       /\ ranks = <<[NewRank(1, get_current_week) EXCEPT
                       !.daily_plays = k, !.last_play_date = Some(ToDb(get_utc8_now))],
                    [NewRank(2, get_current_week) EXCEPT
                       !.daily_plays = 1, !.last_play_date = Some(ToDb(get_utc8_now))]>>
       /\ playlog = (<<1, now>> :> k) @@ (<<2, now>> :> 1)
  /\ currency = InitCurrency(1000, 1000)
  /\ pity = <<>>
  /\ inventory = InitInventory /\ deck = InitDeck /\ trades = <<>> /\ events = <<>>
  /\ pulls = <<>> /\ proc = [q \in Procs |-> IdleProc] /\ nops = 0

ArenaCall(p) ==
  \/ \E a, b \in {1, 2} : RankFight(p, a, b)
  \/ \E req \in requests, resp \in JudgeResponses : AcceptRanked(p, req, resp)

\* ranked requests and acceptances served one after the other
NextArena == nops < MaxArenaOps /\ Sequential /\ ArenaCall(1)

SpecArena == InitArena /\ [][NextArena]_vars

(* --------------------------- specifications ---------------------------- *)

\* card id 0 is falsy and names no card
ReqInputs == {Unset} \cup {Given(Some(c)) : c \in {0, 1, 2}}

PriceInputs == {Unset, Given(None)} \cup {Given(Some(x)) : x \in {-1, 0, 500}}

TradeIds == 1..(MaxTrades + 1)

TradeStep(p) ==
  \/ AcceptValidate(p)
  \/ AcceptOffer(p)
  \/ AcceptOfferDeck(p)
  \/ AcceptRequest(p)
  \/ AcceptRequestDeck(p)
  \/ AcceptFinish(p)
  \/ RejectCommit(p)
  \/ CancelCommit(p)
  \/ SellDeck(p)

TradeCall(p) ==
  \/ \E a, b \in Players, c \in {1, 2}, r \in ReqInputs, m \in PriceInputs : CreateTrade(p, a, b, c, r, m)
  \/ \E t \in TradeIds, a \in Players : StartAccept(p, t, a)
  \/ \E t \in TradeIds, a \in Players : StartReject(p, t, a)
  \/ \E t \in TradeIds, a \in Players : StartCancel(p, t, a)
  \/ \E a \in Players, c \in {1, 2}, n \in 0..2 : SellCard(p, a, c, n)

\* trade requests served one after the other
NextTrade ==
  \/ nops < MaxOps /\ Sequential /\ TradeCall(1)
  \/ TradeStep(1)

SpecTrade == InitTrade /\ [][NextTrade]_vars

\* trade requests served concurrently by NumProcs handlers
NextConc ==
  \E p \in Procs :
    \/ nops < MaxConcOps /\ TradeCall(p)
    \/ TradeStep(p)

SpecConc == InitTrade /\ [][NextConc]_vars

EconomyCall(p) ==
  \/ TradeCall(p)
  \/ \E a \in Players : SellCard(p, a, 3, 1)
  \/ \E a \in Players, n \in PullCounts : StartPull(p, a, 2, n)
  \/ \E a \in Players, i \in ShopItems \cup {9} : PurchaseShopItem(p, i, a)
  \/ \E a \in Players, f \in {0, 500} : ChargePlayFee(p, a, f)
  \/ \E a, b \in Players, m \in {0, 100, 600} : a # b /\ ProcessDuelBet(p, a, b, m)

\* the whole economy, requests served one after the other
Next ==
  \/ nops < MaxEconOps /\ Sequential /\ EconomyCall(1)
  \/ TradeStep(1)
  \/ GachaStep(1)

Spec == InitEconomy /\ [][Next]_vars

(* -------------------------------- decks -------------------------------- *)

\* the deck rows of a player at a position
RowsAt(d, player, position) == {r \in d : r[1] = player /\ r[2] = position}

\* count_card_in_deck
count_card_in_deck(d, player, card) == Cardinality({r \in d : r[1] = player /\ r[3] = card})

\* add_card_to_deck for the row first() found at the position (None when
\* there is none): the error raised, if any
AddToDeckError(player, card, existing) ==
  LET count == count_card_in_deck(deck, player, card)
      counted == IF existing # None /\ existing[1][3] = card THEN count - 1 ELSE count
  IN IF ~HasCardRow(inventory, player, card) \/ inventory[CardKey(player, card)] <= 0
     THEN "not_owned"
     ELSE IF counted >= inventory[CardKey(player, card)] THEN "limit"
     ELSE "none"

\* /deck_set: add_card_to_deck, one commit
AddCardToDeck(p, player, card, position) ==
  /\ CanStart(p)
  /\ nops' = nops + 1
  /\ LET rec == [IdleProc EXCEPT !.op = "deck_set", !.actor = player, !.arg = position]
         found == RowsAt(deck, player, position)
     IN \E existing \in (IF found = {} THEN {None} ELSE {Some(r) : r \in found}) :
          LET e == AddToDeckError(player, card, existing)
          IN IF e # "none"
             THEN /\ Raise(p, rec, e)
                  /\ UNCHANGED deck
             ELSE /\ deck' = (IF existing = None THEN deck ELSE deck \ {existing[1]})
                               \cup {<<player, position, card>>}
                  /\ Return(p, rec)
  /\ UNCHANGED <<currency, inventory, trades, events, pulls, pity>>
  /\ UNCHANGED pvp

\* /deck_unset: remove_card_from_deck
RemoveCardFromDeck(p, player, position) ==
  /\ CanStart(p)
  /\ nops' = nops + 1
  /\ LET rec == [IdleProc EXCEPT !.op = "deck_unset", !.actor = player, !.arg = position]
         found == RowsAt(deck, player, position)
     IN IF found = {}
        THEN /\ proc' = [proc EXCEPT ![p] = Outcome(rec, "rejected", "empty_position")]
             /\ UNCHANGED deck
        ELSE \E r \in found :
               /\ deck' = deck \ {r}
               /\ Return(p, rec)
  /\ UNCHANGED <<currency, inventory, trades, events, pulls, pity>>
  /\ UNCHANGED pvp

\* /deck_clear: clear_player_deck
ClearPlayerDeck(p, player) ==
  /\ CanStart(p)
  /\ nops' = nops + 1
  /\ deck' = {r \in deck : r[1] # player}
  /\ Return(p, [IdleProc EXCEPT !.op = "deck_clear", !.actor = player])
  /\ UNCHANGED <<currency, inventory, trades, events, pulls, pity>>
  /\ UNCHANGED pvp

\* the positions the commands are given
DeckInputs == {1, 2, 3}

DeckCall(p) ==
  \/ \E a \in {1, 2}, c \in {1, 2}, pos \in DeckInputs : AddCardToDeck(p, a, c, pos)
  \/ \E a \in {1, 2}, pos \in DeckInputs : RemoveCardFromDeck(p, a, pos)
  \/ \E a \in {1, 2} : ClearPlayerDeck(p, a)
  \/ \E a \in {1, 2}, c \in {1, 2}, n \in {1, 2} : SellCard(p, a, c, n)
  \/ \E a \in {1, 2} : StartPull(p, a, 2, 1)
  \/ \E a \in {1, 2} : PurchaseShopItem(p, 1, a)
  \/ \E c \in {1, 2}, r \in {Unset, Given(Some(2))} : CreateTrade(p, 1, 2, c, r, Unset)
  \/ StartAccept(p, 1, 2)

DeckStep(p) ==
  \/ SellDeck(p)
  \/ AcceptValidate(p)
  \/ AcceptOffer(p)
  \/ AcceptOfferDeck(p)
  \/ AcceptRequest(p)
  \/ AcceptRequestDeck(p)
  \/ AcceptFinish(p)
  \/ Draw(p)
  \/ PullCommit(p)

\* deck commands and the operations that move cards, one after the other
NextDeck ==
  \/ nops < MaxDeckOps /\ Sequential /\ DeckCall(1)
  \/ DeckStep(1)

SpecDeck == InitEconomy /\ [][NextDeck]_vars

(* ------------------------------- calendar ------------------------------ *)

\* one evaluation of get_current_week, kept with the instant it was made at
EvalCurrentWeek ==
  /\ calc' = [at |-> now, week |-> get_current_week]
  /\ UNCHANGED <<db, proc, nops, ranks, now, dbtz, playlog>>
  /\ UNCHANGED arena

\* the clock starts on a Monday 00:00 UTC, in the UTC+8 week that began
\* eight hours earlier
InitCalendar ==
  /\ InitNoPvp
  /\ currency = InitCurrency(0, 0)
  /\ pity = <<>>
  /\ inventory = InitInventory /\ deck = InitDeck /\ trades = <<>> /\ events = <<>>
  /\ pulls = <<>> /\ proc = [q \in Procs |-> IdleProc] /\ nops = 0

NextCalendar ==
  \/ now < MaxCalendarTime /\ Tick
  \/ EvalCurrentWeek

SpecCalendar == InitCalendar /\ [][NextCalendar]_vars

(* ---------------------------- audit failures --------------------------- *)

\* the commit of pull_cards when the insert of a GACHA_PULL event fails: the
\* events are rows of the same session, the flush of the commit raises and
\* the transaction is rolled back
PullCommitAppendFails(p) ==
  /\ proc[p].pc = "pull_draw"
  /\ proc[p].done = proc[p].count
  /\ proc' = [proc EXCEPT ![p] = Outcome(proc[p], "error", "event_append")]
  /\ UNCHANGED <<db, nops>>
  /\ UNCHANGED pvp

\* the commit of reject_trade when the insert of the TRADE_REJECTED event
\* fails
RejectCommitAppendFails(p) ==
  /\ proc[p].pc = "reject_commit"
  /\ proc' = [proc EXCEPT ![p] = Outcome(proc[p], "error", "event_append")]
  /\ UNCHANGED <<db, nops>>
  /\ UNCHANGED pvp

\* the economy with audit inserts that may fail
NextAudit ==
  \/ Next
  \/ PullCommitAppendFails(1)
  \/ RejectCommitAppendFails(1)

SpecAudit == InitEconomy /\ [][NextAudit]_vars

\* players 1 and 2 can both pay a pull, player 2 a fee as well
InitLedger ==
  /\ currency = InitCurrency(200, 1000)
  /\ pity = <<>>
  /\ InitRows

LedgerCall(p) ==
  \/ \E a \in {1, 2} : StartPull(p, a, 2, 1)
  \/ \E a \in {1, 2} : ChargePlayFee(p, a, 500)
  \/ \E a, b \in {1, 2} : a # b /\ ProcessDuelBet(p, a, b, 100)

\* pulls, fee charges and duel resolutions of several handlers, interleaved
\* at their commits
NextLedger == \E p \in Procs : (nops < MaxLedgerOps /\ LedgerCall(p)) \/ GachaStep(p)

SpecLedger == InitLedger /\ [][NextLedger]_vars

(* ------------------------------ properties ----------------------------- *)

TradeOps == {"accept", "reject", "cancel"}

\* process p takes a step
Steps(p) == proc'[p] # proc[p]

\* process p serves a new request in this step
Calls(p) == proc[p].pc = "idle" /\ Steps(p)

\* a request is served in this step and no other process moved: process p
\* served it, or no process's record changed
Serves(p) ==
  /\ proc[p].pc = "idle" /\ nops' = nops + 1
  /\ \A q \in Procs \ {p} : proc'[q] = proc[q]

\* what trade t moves for a player: units of a card, and currency
CardDelta(t, player, card) ==
    (IF card = t.offered_card_id /\ player = t.receiver_id THEN 1 ELSE 0)
  - (IF card = t.offered_card_id /\ player = t.proposer_id THEN 1 ELSE 0)
  + (IF t.requested_card_id = Some(card) /\ player = t.proposer_id THEN 1 ELSE 0)
  - (IF t.requested_card_id = Some(card) /\ player = t.receiver_id THEN 1 ELSE 0)

CurrencyDelta(t, player) ==
  IF t.price = None THEN 0
  ELSE (IF player = t.proposer_id THEN t.price[1] ELSE 0)
     - (IF player = t.receiver_id THEN t.price[1] ELSE 0)

\* every transfer of trade t has been applied to the ledger "pre"
TradeApplied(pre, t) ==
  /\ \A q \in Players : currency[q] = pre.currency[q] + CurrencyDelta(t, q)
  /\ \A q \in Players, c \in Cards :
       CardQty(inventory, q, c) = CardQty(pre.inventory, q, c) + CardDelta(t, q, c)

\* C1: trade acceptance is all-or-nothing in every committed state: while or
\* after accept_trade runs, either the trade is COMPLETED and all its
\* transfers are applied, or it is not COMPLETED and no balance or inventory
\* quantity differs from what accept_trade found.
C1_AcceptAllOrNothing ==
  \A p \in Procs :
    (proc[p].op = "accept" /\ proc[p].pc # "idle") =>
      LET t == trades[proc[p].tid]
      IN \/ t.status = "COMPLETED" /\ TradeApplied(proc[p].pre, t)
         \/ /\ t.status # "COMPLETED"
            /\ currency = proc[p].pre.currency
            /\ inventory = proc[p].pre.inventory

\* C6: a trade leaves PENDING once: when its status is COMPLETED, REJECTED or
\* CANCELLED, no step changes the status, and no step of a call on that
\* trade changes a balance, an inventory row or a deck row.
C6_TerminalIsFinal ==
  [][\A t \in DOMAIN trades :
       trades[t].status # "PENDING" =>
         /\ trades'[t].status = trades[t].status
         /\ \A p \in Procs :
              (proc[p].op \in TradeOps /\ proc[p].pc # "idle" /\ proc[p].tid = t /\ Steps(p)) =>
                UNCHANGED ledger]_vars

\* the re-validation conditions of the claim, on the committed rows
TradeNotExecutable(t) ==
  \/ CardQty(inventory, t.proposer_id, t.offered_card_id) < 1
  \/ t.requested_card_id # None /\ CardQty(inventory, t.receiver_id, t.requested_card_id[1]) < 1
  \/ t.price # None /\ currency[t.receiver_id] < t.price[1]

C8_OnlyTheRightActor ==
  [][\A p \in Procs :
       (Calls(p) /\ proc'[p].op \in TradeOps) =>
         IF proc'[p].result = "error"
         THEN UNCHANGED db
         ELSE /\ proc'[p].tid \in DOMAIN trades
              /\ proc'[p].op \in {"accept", "reject"} =>
                   proc'[p].actor = trades[proc'[p].tid].receiver_id
              /\ proc'[p].op = "cancel" =>
                   proc'[p].actor = trades[proc'[p].tid].proposer_id]_vars

C8_Witness ==
  \E p \in Procs :
    /\ proc[p].op \in TradeOps /\ proc[p].result = "error" /\ proc[p].err = "forbidden"
    /\ \E t \in DOMAIN trades : trades[t].status = "PENDING"

\* C9: a create that fails stores nothing and moves nothing; a create that
\* succeeds adds exactly one PENDING trade between two different players,
\* whose proposer owns the offered card, whose receiver owns the requested
\* card or can pay the price, and changes no currency, inventory or deck row.
C9_CreateChecks ==
  [][\A p \in Procs :
       (Calls(p) /\ proc'[p].op = "create") =>
         IF proc'[p].result = "error"
         THEN UNCHANGED db
         ELSE /\ Len(trades') = Len(trades) + 1
              /\ SubSeq(trades', 1, Len(trades)) = trades
              /\ LET t == trades'[Len(trades')]
                 IN /\ t.status = "PENDING"
                    /\ t.proposer_id # t.receiver_id
                    /\ CardQty(inventory, t.proposer_id, t.offered_card_id) >= 1
                    /\ t.requested_card_id # None =>
                         CardQty(inventory, t.receiver_id, t.requested_card_id[1]) >= 1
                    /\ t.price # None => currency[t.receiver_id] >= t.price[1]
              /\ UNCHANGED ledger]_vars

C9_Witness ==
  /\ \E p \in Procs : proc[p].op = "create" /\ proc[p].result = "error"
                      /\ proc[p].err = "insufficient_funds"
  /\ Len(trades) >= 1

\* C10: every trade row has exactly one of requested_card_id and price set.
C10_CardXorPrice ==
  \A t \in DOMAIN trades : (trades[t].requested_card_id = None) # (trades[t].price = None)

C10_Witness ==
  /\ \E t \in DOMAIN trades : trades[t].requested_card_id # None
  /\ \E t \in DOMAIN trades : trades[t].price # None
  /\ \E p \in Procs : proc[p].op = "create" /\ proc[p].err \in {"validation", "integrity"}

\* number of card units a player owns, over all cards
TotalCards(inv, player) ==
  CardQty(inv, player, 1) + CardQty(inv, player, 2) + CardQty(inv, player, 3)

PityKeys == PlayerIds \X (Pools \cup {9})

\* process p performs one draw in this step
Draws(p) == proc[p].pc = "pull_draw" /\ proc'[p].done = proc[p].done + 1

\* process p commits its pull request in this step
CommitsPull(p) == proc[p].pc = "pull_draw" /\ proc'[p].pc = "idle" /\ proc'[p].result = "ok"

\* C3: a pull request is all-or-nothing.  The one step that commits it adds
\* exactly count (1 or 10) card units, pull records and audit events and
\* deducts 100 or 1000 from the player alone; every other step of a pull
\* request, the failing ones included, leaves currency, inventory, pull
\* records, audit events and every pity counter as they were.
C3_PullAllOrNothing ==
  [][\A p \in Procs :
       (Steps(p) /\ proc'[p].op = "pull") =>
         IF CommitsPull(p)
         THEN LET n == proc[p].count
                  player == proc[p].actor
              IN /\ n \in {1, 10}
                 /\ proc[p].done = n
                 /\ currency' = [currency EXCEPT ![player] = @ - (IF n = 1 THEN 100 ELSE 1000)]
                 /\ TotalCards(inventory', player) = TotalCards(inventory, player) + n
                 /\ \A q \in Players \ {player} : TotalCards(inventory', q) = TotalCards(inventory, q)
                 /\ BagSize(pulls') = BagSize(pulls) + n
                 /\ BagSize(events') = BagSize(events) + n
         ELSE /\ UNCHANGED <<currency, inventory, pulls, events>>
              /\ \A k \in PityKeys : PityOf(pity', k) = PityOf(pity, k)]_vars

C3_Witness ==
  \E p \in Procs :
    /\ proc[p].op = "pull" /\ proc[p].result = "error" /\ proc[p].err = "no_ssr"
    /\ proc[p].count = 10 /\ proc[p].done >= 1
    /\ pulls = <<>>

\* C4: a draw that starts with the pity counter at 1000 or more is a pity
\* draw and yields a card of rarity exactly SSR; a draw below SSR that starts
\* at 999 leaves the counter at 1000; the counter a request starts from is
\* the committed one, and the committed one is the counter of its last draw.
C4_PityForcesSsr ==
  [][\A p \in Procs :
       /\ Draws(p) =>
            /\ proc[p].pity >= 1000 =>
                 (proc'[p].last.was_pity /\ Rarity(proc'[p].last.card) = "SSR")
            /\ (proc[p].pity = 999 /\ Rarity(proc'[p].last.card) \in {"C", "R", "SR"}) =>
                 proc'[p].pity = 1000
       /\ CommitsPull(p) => pity'[<<proc[p].actor, proc[p].pool>>] = proc[p].pity
       /\ (Calls(p) /\ proc'[p].pc = "pull_draw") =>
            proc'[p].pity = PityOf(pity, <<proc'[p].actor, proc'[p].pool>>)]_vars

C4_Witness ==
  \E p \in Procs :
    /\ proc[p].pc = "pull_draw"
    /\ proc[p].last.was_pity /\ proc[p].last.before >= 1000
    /\ Rarity(proc[p].last.card) = "SSR"
    /\ <<proc[p].last.card, 0>> \in PoolCards(proc[p].pool)

\* C5: a draw of rarity SSR, UR, LR or EX leaves the pity counter at 0, any
\* other draw at the previous value plus 1; a draw is pity-triggered exactly
\* when the counter left by the previous draw is 1000 or more, and no other
\* step of the request touches the counter the draws work on.
C5_PityCounterUpdate ==
  [][\A p \in Procs :
       /\ Draws(p) =>
            /\ proc'[p].pity = IF Rarity(proc'[p].last.card) \in {"SSR", "UR", "LR", "EX"}
                               THEN 0 ELSE proc[p].pity + 1
            /\ proc'[p].last.was_pity = (proc[p].pity >= 1000)
       /\ (proc[p].pc = "pull_draw" /\ proc'[p].pc = "pull_draw" /\ ~Draws(p)) =>
            proc'[p].pity = proc[p].pity]_vars

C5_Witness ==
  \E p \in Procs :
    /\ proc[p].pc = "pull_draw" /\ proc[p].count = 10
    /\ proc[p].done >= 2 /\ proc[p].done < 10
    /\ proc[p].last.before >= 1 /\ proc[p].pity = 0
    /\ Rarity(proc[p].last.card) = "UR"

\* C2: in every reachable state every player's currency is at least 0 and
\* every inventory row's quantity is at least 0.
C2_NonNegative ==
  /\ \A q \in Players : currency[q] >= 0
  /\ \A k \in DOMAIN inventory : inventory[k] >= 0

\* the sale of a card whose catalog price is negative has taken a balance below 0
C2_Violation ==
  \E p \in Procs :
    /\ proc[p].op = "sell" /\ proc[p].result = "ok"
    /\ currency[proc[p].actor] < 0

SumCurrency(cur) == cur[1] + cur[2] + cur[3]

SumCard(inv, card) == CardQty(inv, 1, card) + CardQty(inv, 2, card) + CardQty(inv, 3, card)

\* process p returns from a successful accept_trade in this step
CompletesAccept(p) ==
  proc[p].op = "accept" /\ proc[p].pc # "idle" /\ proc'[p].pc = "idle" /\ proc'[p].result = "ok"

\* C11: a successful accept has moved exactly 1 unit of the offered card
\* from proposer to receiver and either 1 unit of the requested card or the
\* price the other way; no inventory row is left with quantity 0 and the
\* receiver's row exists; total currency and the total of each card are as
\* they were before the accept, and a third player's balance and cards too.
C11_AcceptExchange ==
  [][\A p \in Procs :
       CompletesAccept(p) =>
         LET t == proc[p].trade
             pre == proc[p].pre
             A == t.proposer_id
             B == t.receiver_id
         IN /\ trades'[proc[p].tid].status = "COMPLETED"
            /\ \A q \in Players, c \in Cards :
                 CardQty(inventory', q, c) = CardQty(pre.inventory, q, c) + CardDelta(t, q, c)
            /\ \A q \in Players : currency'[q] = pre.currency[q] + CurrencyDelta(t, q)
            /\ t.price # None => /\ currency'[A] = pre.currency[A] + t.price[1]
                                 /\ currency'[B] = pre.currency[B] - t.price[1]
            /\ \A k \in DOMAIN inventory' : inventory'[k] >= 1
            /\ HasCardRow(inventory', B, t.offered_card_id) \/ t.requested_card_id = Some(t.offered_card_id)
            /\ SumCurrency(currency') = SumCurrency(pre.currency)
            /\ \A c \in Cards : SumCard(inventory', c) = SumCard(pre.inventory, c)
            /\ \A q \in Players \ {A, B} :
                 /\ currency'[q] = pre.currency[q]
                 /\ \A c \in Cards : CardQty(inventory', q, c) = CardQty(pre.inventory, q, c)]_vars

\* the spec's example: A (player 1) sold one of two units of card 1 to B for 500
C11_Witness ==
  /\ \E p \in Procs : proc[p].op = "accept" /\ proc[p].result = "ok" /\ proc[p].tid = 1
  /\ Len(trades) >= 1 /\ trades[1].status = "COMPLETED" /\ trades[1].price = Some(500)
  /\ trades[1].proposer_id = 1 /\ trades[1].receiver_id = 2 /\ trades[1].offered_card_id = 1
  /\ currency[1] = 500 /\ currency[2] = 500
  /\ inventory[CardKey(1, 1)] = 1 /\ inventory[CardKey(2, 1)] = 1

\* the least integer k with 2k >= x
HalfUp(x) == CHOOSE k \in -100..100 : 2 * k >= x /\ 2 * (k - 1) < x

ResolvesRanked(p) == Serves(p) /\ proc'[p].op = "ranked"

PointsOf(rows, player) == {rows[i].points : i \in {j \in DOMAIN rows : rows[j].player_id = player}}

\* C13: every rank row's points are at least 0; a ranked resolution
\* transfers between 0 and the loser's points, the winner's points do not
\* decrease and the loser's do not go below 0.
C13_PointsNonNegative ==
  [][/\ \A i \in DOMAIN ranks' : ranks'[i].points >= 0
     /\ \A p \in Procs :
          ResolvesRanked(p) =>
            LET winner == proc'[p].actor
                loser == proc'[p].peer
                transfer == proc'[p].amount
            IN /\ 0 <= transfer
               /\ \A x \in PointsOf(ranks, loser) : transfer <= x
               /\ \A x \in PointsOf(ranks, winner), y \in PointsOf(ranks', winner) : y >= x
               /\ \A y \in PointsOf(ranks', loser) : y >= 0]_vars

\* a winner ranked more than 50 places below the loser has lost points
C13_Violation ==
  \E p \in Procs :
    /\ proc[p].op = "ranked" /\ proc[p].result = "ok" /\ proc[p].amount < 0
    /\ \E i \in DOMAIN ranks : ranks[i].player_id = proc[p].actor /\ ranks[i].points < 0

\* process p resolves a duel with a bet in this step
ResolvesDuel(p) ==
  Serves(p) /\ proc'[p].op = "duel" /\ proc'[p].result = "ok" /\ proc'[p].amount > 0

\* C17: a duel resolution moves exactly the bet from the loser's currency to
\* the winner's, keeps the sum of the two balances and every other balance,
\* and changes no rank row; a ranked resolution changes no balance.
C17_DuelAndRankedFrames ==
  [][\A p \in Procs :
       /\ ResolvesDuel(p) =>
            LET loser == proc'[p].actor
                winner == proc'[p].peer
                bet == proc'[p].amount
            IN /\ currency'[loser] = currency[loser] - bet
               /\ currency'[winner] = currency[winner] + bet
               /\ currency'[loser] + currency'[winner] = currency[loser] + currency[winner]
               /\ \A q \in Players \ {loser, winner} : currency'[q] = currency[q]
               /\ ranks' = ranks
       /\ (Serves(p) /\ proc'[p].op = "duel") => ranks' = ranks
       /\ ResolvesRanked(p) => currency' = currency]_vars

\* a duel with a bet of 100 has been resolved after a ranked battle moved points
C17_Witness ==
  /\ \E p \in Procs : /\ proc[p].op = "duel" /\ proc[p].result = "ok" /\ proc[p].amount = 100
                      /\ currency[proc[p].peer] >= 100
  /\ \E i \in DOMAIN ranks : ranks[i].player_id \in Players /\ ranks[i].score_updated_at >= 2
  /\ SumCurrency(currency) = 500

\* process p computes a play fee in this step
ChecksFee(p) == Serves(p) /\ proc'[p].op = "check_fee"

RECURSIVE Pow2(_)
Pow2(n) == IF n <= 0 THEN 1 ELSE 2 * Pow2(n - 1)

\* C14: the fee for a daily play counter p is 0 below 10 and
\* 500 * 2^((p - 10) // 5) from 10 on (0 at 9, 500 for 10..14, 1000 for
\* 15..19, 2000 at 24, 4000 at 25), and no smaller counter has a larger fee.
C14_FeeSchedule ==
  [][\A p \in Procs :
       ChecksFee(p) =>
         LET plays == proc'[p].count
             fee == proc'[p].amount
         IN /\ plays >= 0
            /\ plays < 10 => fee = 0
            /\ plays >= 10 => fee = 500 * Pow2((plays - 10) \div 5)
            /\ plays = 9 => fee = 0
            /\ plays \in 10..14 => fee = 500
            /\ plays \in 15..19 => fee = 1000
            /\ plays = 24 => fee = 2000
            /\ plays = 25 => fee = 4000
            /\ \A q \in 0..plays : PlayFee(q) <= fee]_vars

\* a check at the 26th play of a day returned 4000
C14_Witness ==
  \E p \in Procs : proc[p].op = "check_fee" /\ proc[p].count = 25 /\ proc[p].amount = 4000

\* the local (UTC+8) calendar day of an instant
LocalDay(t) == (t + UTC8) \div SlotsPerDay

RECURSIVE LogCount(_, _)
LogCount(log, keys) ==
  IF keys = {} THEN 0
  ELSE LET k == CHOOSE x \in keys : TRUE IN log[k] + LogCount(log, keys \ {k})

\* the plays a player recorded since the last UTC+8 midnight
PlaysToday(player) ==
  LogCount(playlog, {k \in DOMAIN playlog : k[1] = player /\ LocalDay(k[2]) = LocalDay(now)})

\* the stored last-play dates of the player's rows of the current week
LastPlayDates(player) ==
  {ranks[i].last_play_date : i \in RankIds(ranks, player, get_current_week)}

\* C15: at every fee computation daily_plays is the number of plays recorded
\* since the last UTC+8 midnight; the counter is reset when the stored
\* last-play date is on an earlier local day and never when it is on the
\* same local day, whatever offset the stored timestamp carries.
C15_DailyCounter ==
  [][\A p \in Procs :
       ChecksFee(p) =>
         /\ proc'[p].count = PlaysToday(proc'[p].actor)
         /\ \A d \in LastPlayDates(proc'[p].actor) :
              d # None => (proc'[p].done = 1 <=> LocalDay(d[1]) < LocalDay(now))]_vars

\* a fee was computed from a counter that is not the number of today's plays
C15_Violation ==
  \E p \in Procs : proc[p].op = "check_fee" /\ proc[p].count # PlaysToday(proc[p].actor)

\* the bets a player recorded since the last UTC+8 midnight
BetsToday(log, player, t) ==
  LogCount(log, {k \in DOMAIN log : k[1] = player /\ LocalDay(k[2]) = LocalDay(t)})

\* process p admits a duel bet in this step: both validations passed
AdmitsBet(p) == proc[p].pc = "idle" /\ proc'[p].pc = "inc_challenger"

\* C16: a duel bet is admitted only if it is in 1..100000, both players hold
\* it and, for each of them, the bets recorded today plus the bet stay
\* within 1,000,000; no rank row's daily_bet_amount and no player's bets of
\* one local day exceed 1,000,000.
C16_DailyBetCap ==
  [][/\ \A p \in Procs :
          AdmitsBet(p) =>
            LET bet == proc'[p].amount
            IN /\ 1 <= bet /\ bet <= 100000
               /\ \A q \in {proc'[p].actor, proc'[p].peer} :
                    /\ currency[q] >= bet
                    /\ BetsToday(playlog, q, now) + bet <= 1000000
     /\ \A i \in DOMAIN ranks' : ranks'[i].daily_bet_amount <= 1000000
     /\ \A q \in Players : BetsToday(playlog', q, now') <= 1000000]_vars

\* a rank row holds more than 1,000,000 of bets for one day
C16_Violation ==
  \E i \in DOMAIN ranks : ranks[i].daily_bet_amount > DAILY_BET_LIMIT

\* process p runs the weekly rollover in this step
RollsOver(p) == Serves(p) /\ proc'[p].op = "reset"

\* the players with a rank row in a week
PlayersOfWeek(rows, week) == {rows[i].player_id : i \in {j \in DOMAIN rows : rows[j].week = week}}

\* C18: after a rollover every player with a row in the previous week has
\* exactly one row for the new week, with points 50 and daily counters 0; and
\* there is never more than one rank row per (player, week).
C18_OneRowPerPlayerWeek ==
  [][/\ \A p \in Procs :
          RollsOver(p) =>
            \A q \in PlayersOfWeek(ranks, get_current_week - 1) :
              /\ Cardinality(RankIds(ranks', q, get_current_week)) = 1
              /\ \A i \in RankIds(ranks', q, get_current_week) :
                   /\ ranks'[i].points = 50
                   /\ ranks'[i].daily_plays = 0
                   /\ ranks'[i].daily_bet_amount = 0
     /\ \A i, j \in DOMAIN ranks' :
          (ranks'[i].player_id = ranks'[j].player_id /\ ranks'[i].week = ranks'[j].week) => i = j]_vars

\* a player has two rank rows for one week
C18_Violation ==
  \E i, j \in DOMAIN ranks :
    i # j /\ ranks[i].player_id = ranks[j].player_id /\ ranks[i].week = ranks[j].week

\* process p distributes the weekly rewards in this step
PaysRewards(p) == Serves(p) /\ proc'[p].op = "rewards"

\* the reward events of a player
RewardEvents(ev, player) ==
  LogCount(ev, {e \in DOMAIN ev : e.player_id = player /\ e.event_type = "RANKED_WEEKLY_REWARD"})

\* the places the leaderboard of a week can give a row
PlacesOf(rows, i) ==
  LeaderboardRank(rows, i)..(LeaderboardRank(rows, i) + Cardinality(TiedWith(rows, i)) - 1)

\* C19: a reward run credits the player at position r of last week's
\* leaderboard 50000, 40000, 30000, 20000 (4..5), 10000 (6..10) or 1000
\* (11..100), nobody past position 100 and nobody without a row, and appends
\* exactly one reward event per credited player.
C19_WeeklyRewards ==
  [][\A p \in Procs :
       PaysRewards(p) =>
         \A q \in Players :
           LET mine == RankIds(ranks, q, get_current_week - 1)
               credit == currency'[q] - currency[q]
               logged == RewardEvents(events', q) - RewardEvents(events, q)
               Tier(r) == CASE r = 1 -> 50000 [] r = 2 -> 40000 [] r = 3 -> 30000
                            [] r \in 4..5 -> 20000 [] r \in 6..10 -> 10000
                            [] r \in 11..100 -> 1000 [] OTHER -> 0
           IN /\ mine = {} => credit = 0
              /\ mine # {} => \E i \in mine : \E r \in PlacesOf(ranks, i) : credit = Tier(r)
              /\ logged = IF credit > 0 THEN 1 ELSE 0]_vars

\* a reward run paid one player for two rows of the same week
C19_Violation ==
  \E p \in Procs :
    /\ proc[p].op = "rewards"
    /\ \E q \in Players : RewardEvents(events, q) >= 2 /\ currency[q] = 2000

\* what the committed operations have cost so far: 100 per single pull
\* record, and the fee of every fee event
Spent(pl, ev) ==
  100 * LogCount(pl, DOMAIN pl)
  + 500 * LogCount(ev, {e \in DOMAIN ev : e.event_type = "RANKED_PLAY_FEE"})

\* C20: economic operations on one player are isolated: a pull that commits
\* deducts its cost from the balance committed at that moment, and every
\* step changes the total currency by exactly the costs of the operations it
\* commits (pull costs and fees; a duel bet moves currency between players),
\* so no update is lost and no draw is received without its cost deducted.
C20_NoLostUpdate ==
  [][/\ \A p \in Procs :
          CommitsPull(p) =>
            currency'[proc[p].actor] = currency[proc[p].actor] - 100 * proc[p].count
     /\ SumCurrency(currency') + Spent(pulls', events')
          = SumCurrency(currency) + Spent(pulls, events)]_vars

\* a pull and a fee were both committed for player 2 and the fee is missing
\* from the balance
C20_Violation ==
  /\ LogCount(pulls, {r \in DOMAIN pulls : r.player_id = 2}) = 1
  /\ LogCount(events, {e \in DOMAIN events : e.event_type = "RANKED_PLAY_FEE" /\ e.player_id = 2}) = 1
  /\ \A q \in Procs : proc[q].pc = "idle" /\ proc[q].op \in {"pull", "fee"} /\ proc[q].result = "ok"
  /\ currency[2] = 900

(* ------------------------------ ranked arena ---------------------------- *)

\* process p serves the acceptance of a ranked request in this step
AcceptsRanked(p) == Serves(p) /\ proc'[p].op = "accept_ranked"

\* the acceptance passed the fees: the challenge exists and the judge is asked
StartsBattle(p) == AcceptsRanked(p) /\ Len(challenges') = Len(challenges) + 1

\* C21: a battle always resolves with a participant as winner: whatever the
\* judge answers (no content, no JSON, no winner, a winner of another type or
\* value, a winner_id naming a third player), the battle that started ends
\* without an error, its winner is the challenger or the opponent, and the
\* points of nobody else change.
C21_BattleAlwaysResolves ==
  [][\A p \in Procs :
       StartsBattle(p) =>
         /\ proc'[p].result = "ok"
         /\ proc'[p].winner \in {proc'[p].actor, proc'[p].peer}
         /\ \A q \in Players \ {proc'[p].actor, proc'[p].peer} :
              PointsOf(ranks', q) \subseteq PointsOf(ranks, q) \cup {0}]_vars

\* a battle was won by a player who took no part in it and holds points now
C21_Violation ==
  \E p \in Procs :
    /\ proc[p].op = "accept_ranked" /\ proc[p].result = "ok"
    /\ proc[p].winner \notin {proc[p].actor, proc[p].peer}
    /\ \E i \in DOMAIN ranks : ranks[i].player_id = proc[p].winner /\ ranks[i].points > 0

\* a battle that started ended in an exception of the judge's answer
C21_ViolationRaised ==
  \E p \in Procs :
    /\ proc[p].op = "accept_ranked" /\ proc[p].result = "error"
    /\ proc[p].err \in {"empty_response", "json_decode", "attribute_error"}
    /\ challenges # <<>>

\* the price of a player's k-th ranked play of a local day
KthPlayFee(k) == IF k <= 10 THEN 0 ELSE 500 * Pow2((k - 11) \div 5)

\* C25: whenever a ranked battle starts, each participant pays exactly the
\* fee of the schedule for the plays they have behind them at that moment
\* (0 up to the 10th play of the day, 500 * 2^((k - 11) // 5) for the k-th
\* play after it), however many requests were issued or accepted since the
\* fee was quoted.
C25_FeeOfBattleStart ==
  [][\A p \in Procs :
       StartsBattle(p) =>
         \A q \in {proc'[p].actor, proc'[p].peer} :
           currency[q] - currency'[q] = KthPlayFee(PlaysToday(q) + 1)]_vars

\* a player is at their 11th play of the day or later and has paid no fee
C25_Violation ==
  /\ PlaysToday(1) >= 11
  /\ currency[1] = 1000
  /\ \E p \in Procs : proc[p].op = "accept_ranked" /\ proc[p].result = "ok"

\* C26: once the battle of a challenge is resolved, the challenge row
\* records the winner and is no longer ONGOING, and no challenge is ONGOING
\* when no acceptance is in progress.
C26_ResolvedChallengeRecorded ==
  [][/\ \A p \in Procs :
          (StartsBattle(p) /\ proc'[p].result = "ok") =>
            /\ challenges'[Len(challenges')].winner_id = Some(proc'[p].winner)
            /\ challenges'[Len(challenges')].status # "ONGOING"
     /\ (\A q \in Procs : proc'[q].pc = "idle") =>
          \A i \in DOMAIN challenges' : challenges'[i].status # "ONGOING"]_vars

\* a battle is resolved, its points moved, and its challenge is ONGOING
\* without a winner
C26_Violation ==
  /\ \A q \in Procs : proc[q].pc = "idle"
  /\ \E p \in Procs :
       /\ proc[p].op = "accept_ranked" /\ proc[p].result = "ok"
       /\ proc[p].winner \in {proc[p].actor, proc[p].peer}
  /\ \E e \in DOMAIN events : e.event_type = "RANKED_SCORE_GAINED"
  /\ \A i \in DOMAIN challenges :
       challenges[i].status = "ONGOING" /\ challenges[i].winner_id = None
  /\ challenges # <<>>

(* ------------------------------ trade audit ----------------------------- *)

TradeEventTypes ==
  {"TRADE_CREATED", "TRADE_ACCEPTED", "TRADE_REJECTED", "TRADE_CANCELLED",
   "TRADE_CARD_SENT", "TRADE_CARD_RECEIVED", "TRADE_MONEY_SENT", "TRADE_MONEY_RECEIVED"}

\* this step commits a new trade event about trade t
TradeEventAdded(t) ==
  \E e \in DOMAIN events' :
    /\ e.event_type \in TradeEventTypes /\ e.ref = t
    /\ (e \notin DOMAIN events \/ events'[e] > events[e])

\* this step commits a new trade event about trade t for player q
TradeEventAddedFor(t, q) ==
  \E e \in DOMAIN events' :
    /\ e.event_type \in TradeEventTypes /\ e.ref = t /\ e.player_id = q
    /\ (e \notin DOMAIN events \/ events'[e] > events[e])

\* C22: every status transition of a trade (its creation as PENDING and
\* every change of its status) is committed together with an audit event
\* about that trade, and every commit of an acceptance that moves cards or
\* currency carries an audit event about the trade for the proposer and for
\* the receiver.
C22_TransitionsAudited ==
  [][/\ \A t \in DOMAIN trades' :
          (t \notin DOMAIN trades \/ trades'[t].status # trades[t].status) => TradeEventAdded(t)
     /\ \A p \in Procs :
          (proc[p].op = "accept" /\ proc[p].pc # "idle"
             /\ (inventory' # inventory \/ currency' # currency)) =>
            /\ TradeEventAddedFor(proc[p].tid, proc[p].trade.proposer_id)
            /\ TradeEventAddedFor(proc[p].tid, proc[p].trade.receiver_id)]_vars

\* a trade was cancelled by the re-validation of an acceptance and no event
\* tells of it
C22_Violation ==
  \E t \in DOMAIN trades :
    /\ trades[t].status = "CANCELLED"
    /\ \E p \in Procs : proc[p].op = "accept" /\ proc[p].err = "revalidation"
    /\ \A e \in DOMAIN events : e.ref = t => e.event_type = "TRADE_CREATED"

\* the offered card has changed hands, committed, and no event tells of it
C22_ViolationTransfer ==
  \E p \in Procs :
    /\ proc[p].op = "accept" /\ proc[p].pc = "accept_offer_deck"
    /\ \A e \in DOMAIN events : e.ref = proc[p].tid => e.event_type = "TRADE_CREATED"

(* ----------------------------- audit failures --------------------------- *)

\* the audit insert of the commit process p attempts in this step fails
AuditAppendFails(p) == proc[p].pc # "idle" /\ proc'[p].err = "event_append"

\* C23: a failing audit insert never aborts the operation it belongs to:
\* the caller sees no error, a pull is paid for and its cards and pity are
\* committed, a rejected trade is REJECTED.
C23_AppendFailureTolerated ==
  [][\A p \in Procs :
       AuditAppendFails(p) =>
         /\ proc'[p].result = "ok"
         /\ proc[p].op = "pull" =>
              /\ currency'[proc[p].actor] = proc[p].cur - PullCost(proc[p].count)
              /\ pity'[<<proc[p].actor, proc[p].pool>>] = proc[p].pity
              /\ inventory' # inventory
         /\ proc[p].op = "reject" => trades'[proc[p].tid].status = "REJECTED"]_vars

\* a pull whose audit insert failed ended in an error, and the player has
\* neither paid nor received a card
C23_Violation ==
  \E p \in Procs :
    /\ proc[p].op = "pull" /\ proc[p].result = "error" /\ proc[p].err = "event_append"
    /\ proc[p].done = proc[p].count
    /\ pulls = <<>>
    /\ currency \in {InitCurrency(a, b) : a \in {0, 100}, b \in {500, 1000}}

\* a rejection whose audit insert failed left the trade PENDING
C23_ViolationReject ==
  \E p \in Procs :
    /\ proc[p].op = "reject" /\ proc[p].err = "event_append"
    /\ \E t \in DOMAIN trades : trades[t].status = "PENDING"
    /\ \A t \in DOMAIN trades : trades[t].status # "REJECTED"

(* ----------------------------- double accept ---------------------------- *)

\* C24: when a trade is accepted by several calls at once and nothing else
\* happens, its transfers are applied at most once: the proposer has lost at
\* most one unit of the offered card and has been paid the price at most
\* once.
C24_DoubleAcceptAppliesOnce ==
  (Len(trades) = 1 /\ \A p \in Procs : proc[p].op = "accept") =>
    LET t == trades[1]
    IN /\ CardQty(InitInventory, t.proposer_id, t.offered_card_id)
            - CardQty(inventory, t.proposer_id, t.offered_card_id) <= 1
       /\ Truthy(t.price) =>
            currency[t.proposer_id] \in
              {InitCurrency(0, b)[t.proposer_id] + x : b \in {500, 1000}, x \in {0, t.price[1]}}

\* two acceptances of the one trade both succeeded: the proposer has given
\* both units of the card and the receiver has paid twice
C24_Violation ==
  /\ Len(trades) = 1 /\ trades[1].status = "COMPLETED"
  /\ \A p \in Procs : proc[p].op = "accept" /\ proc[p].result = "ok" /\ proc[p].pc = "idle"
  /\ CardQty(inventory, 1, 1) = 0 /\ CardQty(inventory, 2, 1) = 2
  /\ currency[1] = 1000 /\ currency[2] = 0

(* -------------------------------- calendar ------------------------------ *)

\* the slots of a week
WeekSlots == DaysPerWeek * SlotsPerDay

\* the instant is a Monday 00:00 of UTC+8
LocalMondayMidnight(t) == (t + UTC8) % WeekSlots = 0

\* C28: the week key is the same for every instant from a Monday 00:00 UTC+8
\* to the next and larger by exactly 1 in the following week: when the clock
\* advances, the key grows by 1 if the new instant is a Monday 00:00 UTC+8
\* and stays as it is at every other instant (a UTC midnight, a Thursday),
\* and every key that was computed is the number of Monday 00:00 UTC+8
\* boundaries passed.
C28_WeekKeyOfLocalWeek ==
  [][/\ now' = now + 1 =>
          get_current_week' = get_current_week + (IF LocalMondayMidnight(now') THEN 1 ELSE 0)
     /\ calc' # <<>> => calc'.week = (calc'.at + UTC8) \div WeekSlots]_vars

\* the key was computed on the Thursday of the second week, after a Monday
\* boundary, a Thursday and several UTC midnights, and the clock has passed
\* the next Monday boundary since
C28_Witness ==
  /\ calc # <<>>
  /\ calc.at = WeekSlots + 3 * SlotsPerDay
  /\ calc.week = 1
  /\ now >= 2 * WeekSlots /\ get_current_week = 2

(* ------------------------------ zero weights ---------------------------- *)

\* process p makes a draw in this step, or fails to
TriesDraw(p) ==
  proc[p].pc = "pull_draw" /\ proc[p].done < proc[p].count /\ proc'[p] # proc[p]

\* the weights of a card's rows in the pool
WeightsOf(cards, c) == {x[2] : x \in {y \in cards : y[1] = c}}

\* C27: a draw on a pool whose weights sum to 0 fails with an error whatever
\* the pity counter is and draws nothing, no pull on such a pool is ever
\* committed, and a draw below the pity threshold on a pool of positive
\* total weight yields a card of positive weight.
C27_ZeroWeightRejected ==
  [][/\ \A p \in Procs :
          TriesDraw(p) =>
            LET cards == PoolCards(proc[p].pool)
            IN /\ TotalProb(cards) <= 0 =>
                    proc'[p].pc = "idle" /\ proc'[p].result = "error"
               /\ (TotalProb(cards) > 0 /\ proc[p].pity < MAX_PITY /\ proc'[p].pc = "pull_draw") =>
                    \A w \in WeightsOf(cards, proc'[p].last.card) : w > 0
     /\ \A r \in DOMAIN pulls' : TotalProb(PoolCards(r.pool_id)) > 0]_vars

\* a pull on the pool of total weight 0 was paid for and delivered the SSR
\* card of weight 0 as a pity draw
C27_Violation ==
  /\ \E r \in DOMAIN pulls : r.pool_id = 4 /\ r.card_id = 2 /\ r.was_pity
  /\ \E p \in Procs : proc[p].op = "pull" /\ proc[p].actor = 2 /\ proc[p].result = "ok"
  /\ CardQty(inventory, 2, 2) = 2
  /\ pity[<<2, 4>>] = 0

(* ------------------------------ pity range ------------------------------ *)

\* C30: the pity counter of every (player, pool) stays between 0 and 1000:
\* a row is created at 0, the counter a request works on stays in that range,
\* and a draw that starts at 1000 either leaves the counter at 0 or fails
\* and leaves the committed counter as it was.
C30_PityWithinRange ==
  [][/\ \A k \in DOMAIN pity' : pity'[k] \in 0..MAX_PITY
     /\ \A k \in (DOMAIN pity') \ DOMAIN pity : pity'[k] = 0
     /\ \A p \in Procs :
          /\ proc'[p].pc = "pull_draw" => proc'[p].pity \in 0..MAX_PITY
          /\ (TriesDraw(p) /\ proc[p].pity = MAX_PITY) =>
               \/ proc'[p].pc = "pull_draw" /\ proc'[p].pity = 0
               \/ proc'[p].result = "error" /\ pity' = pity]_vars

\* a counter that stood at 1000 was reset to 0 by a committed pity draw
C30_Witness ==
  /\ <<2, 1>> \in DOMAIN pity /\ pity[<<2, 1>>] = 0
  /\ \E r \in DOMAIN pulls : r.player_id = 2 /\ r.pool_id = 1 /\ r.was_pity
  /\ \E p \in Procs : proc[p].op = "pull" /\ proc[p].result = "ok"

\* a draw at 1000 on a pool without SSR card has failed and the counter is
\* still 1000
C30_WitnessFailed ==
  /\ <<2, 2>> \in DOMAIN pity /\ pity[<<2, 2>>] = MAX_PITY
  /\ \E p \in Procs : proc[p].op = "pull" /\ proc[p].err = "no_ssr"

(* --------------------------------- decks -------------------------------- *)

\* the deck and the inventory agree: no card fills more slots of a player
\* than the player owns units of it, and no position holds two cards
DeckWithinInventory(d, inv) ==
  /\ \A q \in Players, c \in Cards : count_card_in_deck(d, q, c) <= CardQty(inv, q, c)
  /\ \A q \in Players, pos \in DeckPositions : Cardinality(RowsAt(d, q, pos)) <= 1

\* process p removes the cards that left from the sender's deck in this step
VacatesSlots(p) ==
  proc[p].pc \in {"sell_deck", "accept_offer_deck", "accept_request_deck"} /\ proc'[p] # proc[p]

\* whose deck, which card and how many units the removal of process p is about
VacatedFrom(p) ==
  IF proc[p].pc = "sell_deck"
  THEN [player |-> proc[p].actor, card |-> proc[p].trade.offered_card_id, n |-> proc[p].arg]
  ELSE IF proc[p].pc = "accept_offer_deck"
  THEN [player |-> proc[p].trade.proposer_id, card |-> proc[p].trade.offered_card_id, n |-> 1]
  ELSE [player |-> proc[p].trade.receiver_id, card |-> proc[p].trade.requested_card_id[1], n |-> 1]

\* C29: after every completed operation no card fills more deck slots of a
\* player than the player owns units of it and every position holds at most
\* one card; a sale or trade that moves n units out vacates min(n, k) of the
\* sender's k slots holding the card and no other slot.
C29_DeckWithinInventory ==
  [][/\ (\A q \in Procs : proc'[q].pc = "idle") => DeckWithinInventory(deck', inventory')
     /\ \A p \in Procs :
          VacatesSlots(p) =>
            LET v == VacatedFrom(p)
                k == count_card_in_deck(deck, v.player, v.card)
            IN /\ deck' \subseteq deck
               /\ \A r \in deck \ deck' : r[1] = v.player /\ r[3] = v.card
               /\ Cardinality(deck \ deck') = Min(v.n, k)]_vars

\* player 1 sold one of two units of a card that filled two slots, and one
\* slot is left
C29_Witness ==
  /\ \A q \in Procs : proc[q].pc = "idle"
  /\ \E p \in Procs : proc[p].op = "sell" /\ proc[p].result = "ok"
  /\ CardQty(inventory, 1, 1) = 1
  /\ count_card_in_deck(deck, 1, 1) = 1

====
